---------------------------- MODULE Spec2Model ----------------------------
(***************************************************************************)
(* The relay's SessionRegistry (relay-server/session-registry.ts) driven   *)
(* by the connection events of the relay: an agent socket opens and gets a *)
(* session, a browser socket sends join, sockets close, the cleanup timer  *)
(* fires, the clock advances.                                              *)
(*                                                                         *)
(* Session objects live in a heap (objects) and the three Maps of the      *)
(* registry hold references (object ids) to them, as in the TypeScript.    *)
(*                                                                         *)
(* Around the registry: the relay's frames and outbound queues, the        *)
(* browser's ConnectionProvider (ConnectionContext.tsx), the two           *)
(* TerminalProviders (binary and text), and the ConnectionProvider joined  *)
(* to the relay.  Each has its own variables and its own specification.    *)
(***************************************************************************)
EXTENDS Integers, Sequences, FiniteSets, TLC

(***************************************************************************)
(* Bounds of the model                                                     *)
(***************************************************************************)
NumMacs == 2

NumBrowsers == 2

MaxTicks == 2

CodeLen == 1

\* The connections a behaviour of the fair specification and of the relay
\* specification opens.
MaxOpened == 2

\* The payload frames one connection sends to the relay to be forwarded.
MaxFrames == 2

\* The clock steps a behaviour of the relay specification takes.
RelayTicks == 1

\* The bound of the outbound queue of a connection (the relay's designers
\* choose it, e.g. 1024 messages).
QueueBound == 2

\* The ReconnectingWebSocket objects the browser client makes.
MaxSockets == 2

\* The reconnections one ReconnectingWebSocket makes (its maxRetries is 10
\* for connect and 3 for attemptRejoin).
MaxReconnects == 1

\* The chunks of terminal data that arrive between two disconnects.
MaxChunks == 2

(***************************************************************************)
(* Program constants                                                       *)
(***************************************************************************)
\* SESSION_CODE_EXPIRY_MS of shared/constants.ts: five minutes.
SESSION_CODE_EXPIRY_MS == 300000

\* The number Infinity of JavaScript, kept apart from every clock value.
Infinity == -1

\* null of JavaScript.
NULL == <<>>

(***************************************************************************)
(* Sockets, codes, clock steps                                             *)
(***************************************************************************)
MacSockets == {<<"mac", i>> : i \in 1..NumMacs}

BrowserSockets == {<<"browser", i>> : i \in 1..NumBrowsers}

Sockets == MacSockets \cup BrowserSockets

\* Characters the code generator draws from (a part of the 30 letter
\* alphabet ABCDEFGHJKMNPQRSTVWXYZ23456789).
GenChars == {"A", "2"}

\* Characters a browser may type: the generator's and a lower case letter.
InputChars == {"A", "a", "2"}

\* generateSessionCode(): any string of CodeLen generator characters.
generateSessionCode == [1..CodeLen -> GenChars]

InputCodes == [1..CodeLen -> InputChars]

\* The clock moves by a millisecond or by a whole expiry period.
TickSteps == {1, SESSION_CODE_EXPIRY_MS}

\* String.prototype.toUpperCase on one character and on a string.
UpperChar(ch) == IF ch = "a" THEN "A" ELSE ch

toUpperCase(s) == [i \in 1..Len(s) |-> UpperChar(s[i])]

(***************************************************************************)
(* Map<K, V> of JavaScript as a function with a finite domain              *)
(***************************************************************************)
MapHas(m, k) == k \in DOMAIN m

MapSet(m, k, v) == [x \in (DOMAIN m) \cup {k} |-> IF x = k THEN v ELSE m[x]]

MapDelete(m, k) == [x \in (DOMAIN m) \ {k} |-> m[x]]

EmptyMap == [x \in {} |-> NULL]

(***************************************************************************)
(* State                                                                   *)
(***************************************************************************)
VARIABLES
  objects,           \* heap: object id -> Session record
  sessions,          \* Map code -> Session (reference)
  macToSession,      \* Map mac socket -> Session (reference)
  browserToSession,  \* Map browser socket -> Session (reference)
  now,               \* Date.now()
  ticks,             \* number of clock steps taken
  sock,              \* state of every socket of the relay
  nextId,            \* number of session ids drawn so far
  joins,             \* history: successful joins of every live Session
  expiredCodes,      \* history: codes seen expired whose pair was not
                     \* removed by its agent's disconnect, not issued again
  droppedAt,         \* history: time of the last browser disconnect of every
                     \* live Session (Infinity: none yet)
  last,              \* the registry call of the last step and its result
  creating,          \* the agent socket createSession is running for, or NULL
  drawn,             \* the code its loop has drawn last
  macOut,            \* the frames the relay has sent to every agent socket
  browserOut,        \* the frames the relay has sent to every browser socket
  received,          \* the frames the writer of every connection has taken
                     \* from its outbound queue and written to the socket
  doomed,            \* the connections the relay has closed because their
                     \* outbound queue overflowed, until their close handler
                     \* has run
  sentBy,            \* history: the payloads every connection has sent to the
                     \* relay to be forwarded, with the peer at that time
  stateRef,          \* browser client: stateRef.current (ConnectionState)
  wsRef,             \* browser client: wsRef.current, a socket of rws or NULL
  rws,               \* the ReconnectingWebSocket objects the client has made
  currentCodeRef,    \* browser client: currentCodeRef.current
  ctxSessionId,      \* browser client: the sessionId of the context
  storedSessionId,   \* sessionStorage item terminal-session-id, or NULL
  mounted,           \* the provider's mount effect has run
  sent,              \* history: the frames handed to ws.send, with the state
                     \* and the readyState they were sent in
  ev,                \* history: the client's last step (op, socket, code)
  rejoinClosed,      \* history: a socket closed in state 'rejoining' and
                     \* connect() has not been called since
  terminalsRef,      \* binary TerminalProvider: Map sessionId -> Terminal
  pendingDataRef,    \* binary TerminalProvider: Map sessionId -> chunks
  readyRef,          \* binary TerminalProvider: Set of ready sessionIds
  arrived,           \* history: the chunks writeBinaryData got, per session
  written,           \* history: the chunks written to a terminal, per session
  textTerminalsRef,  \* text TerminalProvider: the keys of its terminals Map
                     \* in insertion order
  textPendingRef,    \* text TerminalProvider: pendingDataRef.current
  activeSessionIdRef, \* text TerminalProvider: activeSessionIdRef.current
  textArrived,       \* history: the chunks writeData got
  textWritten,       \* history: the chunks written, with the terminal
  tlast,             \* history: the text TerminalProvider call of the last
                     \* step
  tabs,              \* TabsProvider: the tab list (TabInfo records)
  activeTabId,       \* TabsProvider: activeTabId (a sessionId or null)
  textTerminals,     \* text TerminalProvider: the terminals Map, sessionId ->
                     \* xterm instance
  terminalRef,       \* Terminal component: terminalRef.current, NULL while
                     \* no component is mounted
  sessionIdRef,      \* Terminal component: sessionIdRef.current
  disposed,          \* the xterm instances whose dispose() has been called
  xterms,            \* number of xterm instances made so far
  link,              \* Map client socket -> the relay's browser socket of
                     \* its present connection
  toRelay,           \* Map browser socket -> the join frame on its way to
                     \* the relay
  toClient           \* Map browser socket -> the relay's answer on its way
                     \* to the client

\* The state of a createSession call between the draws of its loop.
createVars == <<creating, drawn>>

\* What the registry's methods, run as one step each, leave alone.
\* The outbound frames of the relay's connections.
relayVars == <<macOut, browserOut, received, doomed, sentBy>>

\* The browser client (ConnectionProvider).
clientVars == <<stateRef, wsRef, rws, currentCodeRef, ctxSessionId,
                storedSessionId, mounted, sent, ev, rejoinClosed>>

\* The binary TerminalProvider and its history.
binaryVars == <<terminalsRef, pendingDataRef, readyRef, arrived, written>>

\* The text TerminalProvider and its history.
textVars == <<textTerminalsRef, textPendingRef, activeSessionIdRef,
              textArrived, textWritten>>

\* The TabsProvider.
tabsVars == <<tabs, activeTabId>>

\* The Terminal component and the xterm instances.
componentVars ==
  <<textTerminals, terminalRef, sessionIdRef, disposed, xterms>>

terminalVars == <<binaryVars, textVars, tlast, tabsVars, componentVars>>

\* The connections between the browser client and the relay.
linkVars == <<link, toRelay, toClient>>

extVars == <<createVars, relayVars, clientVars, terminalVars, linkVars>>

\* The registry, the sockets of the relay and their history.
relayRegistryVars ==
  <<objects, sessions, macToSession, browserToSession, now, ticks, sock,
    nextId, joins, expiredCodes, droppedAt, last>>

vars == <<objects, sessions, macToSession, browserToSession, now, ticks, sock,
          nextId, joins, expiredCodes, droppedAt, last, extVars>>

\* The registry as one value, for the operations below.
Registry ==
  [objects |-> objects, sessions |-> sessions,
   macToSession |-> macToSession, browserToSession |-> browserToSession]

\* Variant: the comparison made with >= instead of >.
IsExpired_AtOrAfter(t, expiresAt) == expiresAt # Infinity /\ t >= expiresAt

\* now > session.expiresAt, with expiresAt possibly Infinity.
IsExpired(t, expiresAt) == expiresAt # Infinity /\ t > expiresAt

\* Variant: the expiry is the current time, without the time to live.
ExpiryFrom_NoTtl(t) == t

\* Date.now() + SESSION_CODE_EXPIRY_MS
ExpiryFrom(t) == t + SESSION_CODE_EXPIRY_MS

(***************************************************************************)
(* SessionRegistry operations, as functions from registry to registry      *)
(***************************************************************************)
\* Variant: the drawn code is not looked up in sessions.
FreshCodes_NoCheck(R) == generateSessionCode

\* The codes the do-while loop of createSession can leave with: a drawn
\* code that is not a key of sessions.
FreshCodes(R) == {c \in generateSessionCode : ~MapHas(R.sessions, c)}

\* crypto.randomUUID(): the n-th draw gives an id no earlier draw gave.
randomUUID(n) == <<"uuid", n>>

\* Variant: the session is not entered in macToSession.
createSession_NoMacIndex(R, macSocket, code, id, t) ==
  LET session == [code |-> code, sessionId |-> id, mac |-> macSocket,
                  browser |-> NULL, createdAt |-> t,
                  expiresAt |-> ExpiryFrom(t)]
  IN [R EXCEPT !.objects = MapSet(@, id, session),
               !.sessions = MapSet(@, code, id)]

createSession(R, macSocket, code, id, t) ==
  LET session == [code |-> code, sessionId |-> id, mac |-> macSocket,
                  browser |-> NULL, createdAt |-> t,
                  expiresAt |-> ExpiryFrom(t)]
  IN [R EXCEPT !.objects = MapSet(@, id, session),
               !.sessions = MapSet(@, code, id),
               !.macToSession = MapSet(@, macSocket, id)]

getSession(R, code) == IF MapHas(R.sessions, code) THEN R.sessions[code] ELSE NULL

findSessionByMac(R, socket) ==
  IF MapHas(R.macToSession, socket) THEN R.macToSession[socket] ELSE NULL

findSessionByBrowser(R, socket) ==
  IF MapHas(R.browserToSession, socket) THEN R.browserToSession[socket] ELSE NULL

\* Variant: the browser index entry is not deleted.
removeSession_KeepsBrowserIndex(R, code) ==
  IF ~MapHas(R.sessions, code) THEN R
  ELSE LET session == R.objects[R.sessions[code]]
       IN [R EXCEPT
             !.macToSession = IF session.mac # NULL
                              THEN MapDelete(@, session.mac) ELSE @,
             !.sessions = MapDelete(@, code)]

removeSession(R, code) ==
  IF ~MapHas(R.sessions, code) THEN R
  ELSE LET session == R.objects[R.sessions[code]]
       IN [R EXCEPT
             !.macToSession = IF session.mac # NULL
                              THEN MapDelete(@, session.mac) ELSE @,
             !.browserToSession = IF session.browser # NULL
                                  THEN MapDelete(@, session.browser) ELSE @,
             !.sessions = MapDelete(@, code)]

\* Variant: the test session.browser !== null is missing.
JoinResult_NoJoinedCheck(R, code, t) ==
  IF ~MapHas(R.sessions, code) THEN "INVALID_CODE"
  ELSE LET session == R.objects[R.sessions[code]]
       IN IF IsExpired(t, session.expiresAt) THEN "EXPIRED_CODE"
          ELSE "OK"

\* Variant: the test Date.now() > session.expiresAt is missing.
JoinResult_NoExpiryCheck(R, code, t) ==
  IF ~MapHas(R.sessions, code) THEN "INVALID_CODE"
  ELSE LET session == R.objects[R.sessions[code]]
       IN IF session.browser # NULL THEN "ALREADY_JOINED"
          ELSE "OK"

\* The value joinSession returns: "OK" for success, else the error.
JoinResult(R, code, t) ==
  IF ~MapHas(R.sessions, code) THEN "INVALID_CODE"
  ELSE LET session == R.objects[R.sessions[code]]
       IN IF IsExpired(t, session.expiresAt) THEN "EXPIRED_CODE"
          ELSE IF session.browser # NULL THEN "ALREADY_JOINED"
          ELSE "OK"

\* Variant: the assignment session.expiresAt = Infinity is missing.
JoinedExpiry_Kept(session) == session.expiresAt

\* The expiry a successful join leaves in the session.
JoinedExpiry(session) == Infinity

\* Variant: every failed join on an existing session cleans the session up.
joinSession_RemoveOnAnyFailure(R, code, browserSocket, t) ==
  LET result == JoinResult(R, code, t)
  IN CASE result \in {"EXPIRED_CODE", "ALREADY_JOINED"} -> removeSession(R, code)
       [] result = "OK" ->
            LET id == R.sessions[code]
            IN [R EXCEPT !.objects[id].browser = browserSocket,
                         !.objects[id].expiresAt = JoinedExpiry(R.objects[id]),
                         !.browserToSession = MapSet(@, browserSocket, id)]
       [] OTHER -> R

\* Variant: the expired session is reported but not removed.
joinSession_NoRemoveOnExpired(R, code, browserSocket, t) ==
  LET result == JoinResult(R, code, t)
  IN CASE result = "OK" ->
            LET id == R.sessions[code]
            IN [R EXCEPT !.objects[id].browser = browserSocket,
                         !.objects[id].expiresAt = JoinedExpiry(R.objects[id]),
                         !.browserToSession = MapSet(@, browserSocket, id)]
       [] OTHER -> R

\* Variant: a successful join gives the session a new sessionId.
joinSession_ResetsSessionId(R, code, browserSocket, t) ==
  LET result == JoinResult(R, code, t)
  IN CASE result = "EXPIRED_CODE" -> removeSession(R, code)
       [] result = "OK" ->
            LET id == R.sessions[code]
            IN [R EXCEPT !.objects[id].browser = browserSocket,
                         !.objects[id].sessionId = randomUUID(0),
                         !.objects[id].expiresAt = JoinedExpiry(R.objects[id]),
                         !.browserToSession = MapSet(@, browserSocket, id)]
       [] OTHER -> R

joinSession(R, code, browserSocket, t) ==
  LET result == JoinResult(R, code, t)
  IN CASE result = "EXPIRED_CODE" -> removeSession(R, code)
       [] result = "OK" ->
            LET id == R.sessions[code]
            IN [R EXCEPT !.objects[id].browser = browserSocket,
                         !.objects[id].expiresAt = JoinedExpiry(R.objects[id]),
                         !.browserToSession = MapSet(@, browserSocket, id)]
       [] OTHER -> R

\* Variant: the expiry is not reset.
disconnectBrowser_NoExpiryReset(R, socket, t) ==
  IF ~MapHas(R.browserToSession, socket) THEN R
  ELSE LET id == R.browserToSession[socket]
       IN [R EXCEPT !.objects[id].browser = NULL,
                    !.browserToSession = MapDelete(@, socket)]

\* Variant: session.browser is not cleared.
disconnectBrowser_KeepsBrowser(R, socket, t) ==
  IF ~MapHas(R.browserToSession, socket) THEN R
  ELSE LET id == R.browserToSession[socket]
       IN [R EXCEPT !.objects[id].expiresAt = ExpiryFrom(t),
                    !.browserToSession = MapDelete(@, socket)]

disconnectBrowser(R, socket, t) ==
  IF ~MapHas(R.browserToSession, socket) THEN R
  ELSE LET id == R.browserToSession[socket]
       IN [R EXCEPT !.objects[id].browser = NULL,
                    !.objects[id].expiresAt = ExpiryFrom(t),
                    !.browserToSession = MapDelete(@, socket)]

\* Rejoin, as the relay's rejoin handler uses the registry: the pair is
\* looked up by its session id (a scan of sessions), then the filters of
\* join apply.
SessionIds == {randomUUID(n) : n \in 1..NumMacs}

CodesOfSessionId(R, sessionId) ==
  {c \in DOMAIN R.sessions : R.objects[R.sessions[c]].sessionId = sessionId}

CodeOfSessionId(R, sessionId) == CHOOSE c \in CodesOfSessionId(R, sessionId) : TRUE

RejoinResult(R, sessionId, t) ==
  IF CodesOfSessionId(R, sessionId) = {} THEN "NOT_FOUND"
  ELSE IF R.objects[R.sessions[CodeOfSessionId(R, sessionId)]].mac = NULL
       THEN "MAC_DISCONNECTED"
       ELSE JoinResult(R, CodeOfSessionId(R, sessionId), t)

rejoinSession(R, sessionId, browserSocket, t) ==
  IF RejoinResult(R, sessionId, t) \in {"NOT_FOUND", "MAC_DISCONNECTED"} THEN R
  ELSE joinSession(R, CodeOfSessionId(R, sessionId), browserSocket, t)

\* The codes cleanupExpired removes: the test of its loop.
ExpiredCodes(R, t) ==
  {c \in DOMAIN R.sessions : IsExpired(t, R.objects[R.sessions[c]].expiresAt)}

RECURSIVE RemoveAll(_, _)
RemoveAll(R, codes) ==
  IF codes = {} THEN R
  ELSE LET c == CHOOSE x \in codes : TRUE
       IN RemoveAll(removeSession(R, c), codes \ {c})

\* Variant: the expired sessions are counted and logged but not removed.
cleanupExpired_CountsOnly(R, t) ==
  [reg |-> R, count |-> Cardinality(ExpiredCodes(R, t))]

\* cleanupExpired: the registry it leaves and the count it returns.
cleanupExpired(R, t) ==
  [reg |-> RemoveAll(R, ExpiredCodes(R, t)),
   count |-> Cardinality(ExpiredCodes(R, t))]

(***************************************************************************)
(* Initial state: new SessionRegistry(), no socket yet                     *)
(***************************************************************************)
NoCall == [op |-> "none", sock |-> NULL, code |-> NULL, result |-> "none", count |-> 0, sid |-> NULL]

\* The Session objects some Map of the registry still refers to; the others
\* are garbage.
Reachable(R) ==
  {R.sessions[c] : c \in DOMAIN R.sessions}
    \cup {R.macToSession[m] : m \in DOMAIN R.macToSession}
    \cup {R.browserToSession[b] : b \in DOMAIN R.browserToSession}

\* The join history follows the live objects; joined is the object a
\* successful join of this step was made on (NULL if there was none).
SetJoins(R, joined) ==
  joins' = [id \in Reachable(R) |->
              (IF id \in DOMAIN joins THEN joins[id] ELSE 0)
                + (IF id = joined THEN 1 ELSE 0)]

\* The disconnect history follows the live objects; dropped is the object
\* whose browser this step disconnected (NULL if there was none).
SetDropped(R, dropped) ==
  droppedAt' = [id \in Reachable(R) |->
                  IF id = dropped THEN now
                  ELSE IF id \in DOMAIN droppedAt THEN droppedAt[id]
                  ELSE Infinity]

SetRegistry(R) ==
  /\ objects' = [id \in Reachable(R) |-> R.objects[id]]
  /\ sessions' = R.sessions
  /\ macToSession' = R.macToSession
  /\ browserToSession' = R.browserToSession

\* new SessionRegistry(), with the sockets that are going to connect.
RegistryInit(sockets) ==
  /\ objects = EmptyMap
  /\ sessions = EmptyMap
  /\ macToSession = EmptyMap
  /\ browserToSession = EmptyMap
  /\ now = 0
  /\ ticks = 0
  /\ sock = [s \in sockets |-> "new"]
  /\ nextId = 0
  /\ joins = EmptyMap
  /\ expiredCodes = {}
  /\ droppedAt = EmptyMap
  /\ last = NoCall

\* The browser client before its provider is mounted, with what an earlier
\* page load left in sessionStorage.
ClientStart(stored) ==
  /\ stateRef = "disconnected"
  /\ wsRef = NULL
  /\ rws = EmptyMap
  /\ currentCodeRef = NULL
  /\ ctxSessionId = NULL
  /\ storedSessionId = stored
  /\ mounted = FALSE
  /\ sent = {}
  /\ ev = [op |-> "none", w |-> NULL, code |-> "", prev |-> "none"]
  /\ rejoinClosed = FALSE

\* No createSession call is running and nothing has been sent.
RelayStart ==
  /\ creating = NULL
  /\ drawn = NULL
  /\ macOut = [m \in MacSockets |-> <<>>]
  /\ browserOut = [b \in BrowserSockets |-> <<>>]
  /\ received = [s \in Sockets |-> <<>>]
  /\ doomed = {}
  /\ sentBy = [s \in Sockets |-> <<>>]

\* The sessions (tabs) of the agent whose data reaches the browser.
TabSessions == {"s1", "s2"}

\* The payloads of the chunks.
Chunks == {"x", "y"}

\* The state of a new binary TerminalProvider (and after __disconnect, for
\* the history).
BinaryStart ==
  /\ pendingDataRef = EmptyMap
  /\ readyRef = {}
  /\ arrived = [S \in TabSessions |-> <<>>]
  /\ written = [S \in TabSessions |-> <<>>]

\* activeSessionIdRef.current without a session: null, which the code tests
\* by truthiness.
NoSession == ""

\* The state of a new text TerminalProvider.
TextStart ==
  /\ textTerminalsRef = <<>>
  /\ textPendingRef = <<>>
  /\ activeSessionIdRef = NoSession
  /\ textArrived = <<>>
  /\ textWritten = <<>>

NoTerminalCall == [op |-> "none", sessionId |-> "", data |-> ""]

\* The state of a new TabsProvider: useState([]) and useState(null).
TabsStart ==
  /\ tabs = <<>>
  /\ activeTabId = NoSession

\* No Terminal component mounted, no xterm instance made.
ComponentStart ==
  /\ textTerminals = EmptyMap
  /\ terminalRef = NULL
  /\ sessionIdRef = NoSession
  /\ disposed = {}
  /\ xterms = 0

TerminalStart ==
  /\ terminalsRef = EmptyMap
  /\ BinaryStart
  /\ TextStart
  /\ tlast = NoTerminalCall
  /\ TabsStart
  /\ ComponentStart

\* No connection between the client and the relay yet.
LinkStart ==
  /\ link = EmptyMap
  /\ toRelay = EmptyMap
  /\ toClient = EmptyMap

ExtInit == RelayStart /\ ClientStart(NULL) /\ TerminalStart /\ LinkStart

Init == RegistryInit(Sockets) /\ ExtInit

(***************************************************************************)
(* Actions                                                                 *)
(***************************************************************************)
\* createSession for the agent socket m, leaving its loop with code.
MacConnectOn(m, code) ==
    /\ sock[m] = "new"
    /\ SetRegistry(createSession(Registry, m, code, randomUUID(nextId + 1), now))
    /\ SetJoins(createSession(Registry, m, code, randomUUID(nextId + 1), now), NULL)
    /\ SetDropped(createSession(Registry, m, code, randomUUID(nextId + 1), now), NULL)
    /\ expiredCodes' = expiredCodes \ {code}
    /\ nextId' = nextId + 1
    /\ sock' = [sock EXCEPT ![m] = "open"]
    /\ last' = [op |-> "create", sock |-> m, code |-> code, result |-> "OK", count |-> 0, sid |-> NULL]
    /\ UNCHANGED <<now, ticks>>

\* An agent connects on /mac: the relay creates its session.
MacConnect ==
  \E m \in MacSockets : \E code \in FreshCodes(Registry) :
    MacConnectOn(m, code) /\ UNCHANGED extVars

\* The relay's handling of the close of the agent socket m.
MacCloseOn(m) ==
    /\ sock[m] = "open"
    /\ LET id == findSessionByMac(Registry, m)
       IN IF id = NULL
          THEN /\ UNCHANGED <<objects, sessions, macToSession, browserToSession,
                              joins, expiredCodes, droppedAt>>
               /\ last' = [op |-> "macClose", sock |-> m, code |-> NULL,
                           result |-> "none", count |-> 0, sid |-> NULL]
          ELSE /\ SetRegistry(removeSession(Registry, objects[id].code))
               /\ SetJoins(removeSession(Registry, objects[id].code), NULL)
               /\ SetDropped(removeSession(Registry, objects[id].code), NULL)
               /\ expiredCodes' = expiredCodes \ {objects[id].code}
               /\ last' = [op |-> "remove", sock |-> m, code |-> objects[id].code,
                           result |-> "OK", count |-> 0,
                           sid |-> objects[id].sessionId]
    /\ sock' = [sock EXCEPT ![m] = "closed"]
    /\ UNCHANGED <<now, ticks, nextId>>

\* The agent's socket closes: the relay removes the session it finds for it.
MacClose == \E m \in MacSockets : MacCloseOn(m) /\ UNCHANGED extVars

\* The relay's handling of join with code from the browser socket b.
BrowserJoinOn(b, code) ==
    /\ SetRegistry(joinSession(Registry, code, b, now))
    /\ SetJoins(joinSession(Registry, code, b, now),
                IF JoinResult(Registry, code, now) = "OK"
                THEN sessions[code] ELSE NULL)
    /\ SetDropped(joinSession(Registry, code, b, now), NULL)
    /\ sock' = [sock EXCEPT ![b] = IF JoinResult(Registry, code, now) = "OK"
                                   THEN "joined" ELSE "closed"]
    /\ last' = [op |-> "join", sock |-> b, code |-> code,
                result |-> JoinResult(Registry, code, now), count |-> 0, sid |-> NULL]
    /\ UNCHANGED <<now, ticks, nextId, expiredCodes>>

\* A browser connects on /browser and sends join with the code it typed.
BrowserJoin ==
  \E b \in BrowserSockets : \E code \in InputCodes :
    sock[b] = "new" /\ BrowserJoinOn(b, code) /\ UNCHANGED extVars

\* The relay's handling of rejoin with sessionId from the browser socket b.
BrowserRejoinOn(b, sessionId) ==
    /\ SetRegistry(rejoinSession(Registry, sessionId, b, now))
    /\ SetJoins(rejoinSession(Registry, sessionId, b, now), NULL)
    /\ SetDropped(rejoinSession(Registry, sessionId, b, now), NULL)
    /\ sock' = [sock EXCEPT ![b] = IF RejoinResult(Registry, sessionId, now) = "OK"
                                   THEN "joined" ELSE "closed"]
    /\ last' = [op |-> "rejoin", sock |-> b,
                code |-> IF CodesOfSessionId(Registry, sessionId) = {} THEN NULL
                         ELSE CodeOfSessionId(Registry, sessionId),
                result |-> RejoinResult(Registry, sessionId, now),
                count |-> 0, sid |-> sessionId]
    /\ UNCHANGED <<now, ticks, nextId, expiredCodes>>

\* A browser connects on /browser and sends rejoin with a session id.
BrowserRejoin ==
  \E b \in BrowserSockets : \E sessionId \in SessionIds :
    sock[b] = "new" /\ BrowserRejoinOn(b, sessionId) /\ UNCHANGED extVars

\* The relay's handling of the close of the joined browser socket b.
BrowserCloseOn(b) ==
    /\ sock[b] = "joined"
    /\ SetRegistry(disconnectBrowser(Registry, b, now))
    /\ SetJoins(disconnectBrowser(Registry, b, now), NULL)
    /\ SetDropped(disconnectBrowser(Registry, b, now), findSessionByBrowser(Registry, b))
    /\ sock' = [sock EXCEPT ![b] = "closed"]
    /\ last' = [op |-> "disconnect", sock |-> b,
                code |-> IF findSessionByBrowser(Registry, b) = NULL THEN NULL
                         ELSE objects[findSessionByBrowser(Registry, b)].code,
                result |-> IF findSessionByBrowser(Registry, b) = NULL
                           THEN "none" ELSE "OK",
                count |-> 0, sid |-> NULL]
    /\ UNCHANGED <<now, ticks, nextId, expiredCodes>>

\* A browser socket closes: the relay calls disconnectBrowser for it.
BrowserClose == \E b \in BrowserSockets : BrowserCloseOn(b) /\ UNCHANGED extVars

\* One run of cleanupExpired.
SweepStep ==
  /\ SetRegistry(cleanupExpired(Registry, now).reg)
  /\ SetJoins(cleanupExpired(Registry, now).reg, NULL)
  /\ SetDropped(cleanupExpired(Registry, now).reg, NULL)
  /\ last' = [op |-> "cleanup", sock |-> NULL, code |-> NULL, result |-> "OK",
              count |-> cleanupExpired(Registry, now).count, sid |-> NULL]
  /\ UNCHANGED <<now, ticks, sock, nextId, expiredCodes>>

\* The cleanup interval fires.
Sweep == SweepStep /\ UNCHANGED extVars

\* The clock of the relay moves on.
TickStep ==
  \E d \in TickSteps :
    /\ ticks < MaxTicks
    /\ now' = now + d
    /\ ticks' = ticks + 1
    /\ expiredCodes' = expiredCodes \cup ExpiredCodes(Registry, now + d)
    /\ last' = NoCall
    /\ UNCHANGED <<objects, sessions, macToSession, browserToSession, sock,
                   nextId, joins, droppedAt>>

\* Time passes.
Tick == TickStep /\ UNCHANGED extVars

Next ==
  \/ MacConnect
  \/ MacClose
  \/ BrowserJoin
  \/ BrowserRejoin
  \/ BrowserClose
  \/ Sweep
  \/ Tick

Spec == Init /\ [][Next]_vars

\* startCleanup: setInterval runs cleanupExpired every 60 s for as long as
\* the relay runs, so a sweep that has something to remove is not put off
\* forever.
\* The sockets that have been opened so far.
Opened == {s \in Sockets : sock[s] # "new"}

FairNext == Next /\ Cardinality(Opened') <= MaxOpened

FairSpec == Init /\ [][FairNext]_vars /\ WF_vars(Sweep)

(***************************************************************************)
(* The public methods of SessionRegistry called in any order with any      *)
(* socket: the class does not know what its caller did with a socket       *)
(* before.                                                                 *)
(***************************************************************************)
\* createSession calls in a behaviour of the registry called directly.
MaxCreates == 2

\* Successful joinSession calls on one Session in such a behaviour.
MaxJoins == 2

\* createSession(macSocket) for any agent socket.
ApiCreate ==
  \E m \in MacSockets : \E code \in FreshCodes(Registry) :
    /\ nextId < MaxCreates
    /\ SetRegistry(createSession(Registry, m, code, randomUUID(nextId + 1), now))
    /\ SetJoins(createSession(Registry, m, code, randomUUID(nextId + 1), now), NULL)
    /\ SetDropped(createSession(Registry, m, code, randomUUID(nextId + 1), now), NULL)
    /\ expiredCodes' = expiredCodes \ {code}
    /\ nextId' = nextId + 1
    /\ last' = [op |-> "create", sock |-> m, code |-> code, result |-> "OK",
                count |-> 0, sid |-> NULL]
    /\ UNCHANGED <<now, ticks, sock, extVars>>

\* joinSession(code, browserSocket) for any browser socket.
ApiJoin ==
  \E b \in BrowserSockets : \E code \in InputCodes :
    /\ JoinResult(Registry, code, now) = "OK" => joins[sessions[code]] < MaxJoins
    /\ SetRegistry(joinSession(Registry, code, b, now))
    /\ SetJoins(joinSession(Registry, code, b, now),
                IF JoinResult(Registry, code, now) = "OK"
                THEN sessions[code] ELSE NULL)
    /\ SetDropped(joinSession(Registry, code, b, now), NULL)
    /\ last' = [op |-> "join", sock |-> b, code |-> code,
                result |-> JoinResult(Registry, code, now), count |-> 0,
                sid |-> NULL]
    /\ UNCHANGED <<now, ticks, sock, nextId, expiredCodes, extVars>>

\* disconnectBrowser(socket) for any browser socket.
ApiDisconnect ==
  \E b \in BrowserSockets :
    /\ SetRegistry(disconnectBrowser(Registry, b, now))
    /\ SetJoins(disconnectBrowser(Registry, b, now), NULL)
    /\ SetDropped(disconnectBrowser(Registry, b, now),
                  findSessionByBrowser(Registry, b))
    /\ last' = [op |-> "disconnect", sock |-> b,
                code |-> IF findSessionByBrowser(Registry, b) = NULL THEN NULL
                         ELSE objects[findSessionByBrowser(Registry, b)].code,
                result |-> IF findSessionByBrowser(Registry, b) = NULL
                           THEN "none" ELSE "OK",
                count |-> 0, sid |-> NULL]
    /\ UNCHANGED <<now, ticks, sock, nextId, expiredCodes, extVars>>

\* removeSession(code) for any code.
ApiRemove ==
  \E code \in InputCodes :
    /\ SetRegistry(removeSession(Registry, code))
    /\ SetJoins(removeSession(Registry, code), NULL)
    /\ SetDropped(removeSession(Registry, code), NULL)
    /\ expiredCodes' = expiredCodes \ {code}
    /\ last' = [op |-> "remove", sock |-> NULL, code |-> code,
                result |-> IF MapHas(sessions, code) THEN "OK" ELSE "none",
                count |-> 0, sid |-> NULL]
    /\ UNCHANGED <<now, ticks, sock, nextId, extVars>>

ApiNext ==
  \/ ApiCreate
  \/ ApiJoin
  \/ ApiDisconnect
  \/ ApiRemove
  \/ Sweep
  \/ Tick

ApiSpec == Init /\ [][ApiNext /\ ticks' <= RelayTicks]_vars

(***************************************************************************)
(* createSession with the draws of its do-while loop as steps.  The loop   *)
(* is synchronous: no other handler of the relay runs before it ends.      *)
(***************************************************************************)
\* One agent more than there are codes connects.
CreateMacSockets ==
  {<<"mac", i>> : i \in 1..(Cardinality(generateSessionCode) + 1)}

\* createSession is called for a new agent socket and makes the first draw
\* of its loop: do { code = generateSessionCode(); }
CreateBegin ==
  \E m \in CreateMacSockets : \E code \in generateSessionCode :
    /\ creating = NULL
    /\ sock[m] = "new"
    /\ creating' = m
    /\ drawn' = code
    /\ UNCHANGED <<objects, sessions, macToSession, browserToSession, now,
                   ticks, sock, nextId, joins, expiredCodes, droppedAt, last,
                   relayVars, clientVars, terminalVars, linkVars>>

\* while (this.sessions.has(code)): the code is taken, the loop draws again.
CreateRedraw ==
  \E code \in generateSessionCode :
    /\ creating # NULL
    /\ MapHas(sessions, drawn)
    /\ drawn' = code
    /\ UNCHANGED <<objects, sessions, macToSession, browserToSession, now,
                   ticks, sock, nextId, joins, expiredCodes, droppedAt, last,
                   creating, relayVars, clientVars, terminalVars, linkVars>>

\* The drawn code is free: the loop ends and the session is stored.
CreateFinish ==
  /\ creating # NULL
  /\ ~MapHas(sessions, drawn)
  /\ MacConnectOn(creating, drawn)
  /\ creating' = NULL
  /\ drawn' = NULL
  /\ UNCHANGED <<relayVars, clientVars, terminalVars, linkVars>>

\* An agent socket closes while no createSession call is running.
CreateMacClose ==
  /\ creating = NULL
  /\ \E m \in CreateMacSockets : MacCloseOn(m)
  /\ UNCHANGED <<createVars, relayVars, clientVars, terminalVars, linkVars>>

CreateInit == RegistryInit(CreateMacSockets) /\ ExtInit

CreateNext ==
  \/ CreateBegin
  \/ CreateRedraw
  \/ CreateFinish
  \/ CreateMacClose

\* A draw that gives a code that is not a key of sessions.
CreateRedrawFree == CreateRedraw /\ ~MapHas(sessions, drawn')

\* A running loop keeps running, the random generator does not avoid the
\* free codes forever, and the loop is left once the drawn code is free.
CreateSpec ==
  /\ CreateInit
  /\ [][CreateNext]_vars
  /\ WF_vars(CreateRedraw)
  /\ WF_vars(CreateRedrawFree)
  /\ WF_vars(CreateFinish)

(***************************************************************************)
(* The relay's connection handlers with the frames they send, after the    *)
(* connection state machines and the message discipline of the relay: an   *)
(* agent is sent registered right after its pair is stored; a browser is   *)
(* in AwaitingJoin ("awaiting") from its upgrade to its first frame, and   *)
(* Active ("joined") after a successful join or rejoin.                    *)
(***************************************************************************)
\* The frames of the model.
Registered(code) == <<"registered", code>>

Joined(sessionId) == <<"joined", sessionId>>

Error(code) == <<"error", code>>

\* The payload of the next frame the connection s sends: every frame of a
\* sender has its own payload, here the frame's number.
NextPayload(s) == Len(sentBy[s]) + 1

\* A payload frame of the sender from, forwarded with its payload as it is.
Forwarded(type, from, payload) == <<type, from, payload>>

\* queue with frame sent to socket s, a socket of DOMAIN queue: the frame
\* is put at the end of the outbound queue of s.
Send(queue, s, frame) == [queue EXCEPT ![s] = Append(@, frame)]

\* The frames of the outbound queue of s its writer has not written yet.
Pending(queue, s) == SubSeq(queue[s], Len(received[s]) + 1, Len(queue[s]))

\* The connection of s takes frames: it is open and has not overflowed.
Takes(queue, s) ==
  s \in DOMAIN queue /\ sock[s] \in {"open", "joined"} /\ s \notin doomed

\* Variant: the outbound queue has no bound.
HasRoom_NoBound(queue, s) == TRUE

\* The outbound queue of s is within its bound after one more frame.
HasRoom(queue, s) == Len(Pending(queue, s)) < QueueBound

\* The same, when s may be null or closed: nothing is sent then; and
\* nothing is put into a queue that is full.
SendIfOpen(queue, s, frame) ==
  IF Takes(queue, s) /\ HasRoom(queue, s) THEN Send(queue, s, frame) ELSE queue

\* Write-queue overflow: a frame for a connection whose queue is full
\* closes that connection.
Overflow(queue, s) ==
  IF Takes(queue, s) /\ ~HasRoom(queue, s) THEN doomed \cup {s} ELSE doomed

\* The agent of the pair the browser socket b is joined to, or NULL.
PeerOfBrowser(b) ==
  IF findSessionByBrowser(Registry, b) = NULL THEN NULL
  ELSE objects[findSessionByBrowser(Registry, b)].mac

\* The browser of the pair of the agent socket m, or NULL.
PeerOfMac(m) ==
  IF findSessionByMac(Registry, m) = NULL THEN NULL
  ELSE objects[findSessionByMac(Registry, m)].browser

\* Variant: the connection is left open after the error frame.
AfterInvalidFrame_StaysOpen == "awaiting"

\* The state of a browser connection after a frame that is a protocol
\* violation in its state: closed.
AfterInvalidFrame == "closed"

\* /mac upgrade: the pair is created and stored, then registered is sent,
\* the first frame of the connection's queue.
RelayMacOpen ==
  \E m \in MacSockets : \E code \in FreshCodes(Registry) :
    /\ MacConnectOn(m, code)
    /\ macOut' = Send(macOut, m, Registered(code))
    /\ UNCHANGED <<browserOut, received, doomed, sentBy>>
    /\ UNCHANGED <<createVars, clientVars, terminalVars, linkVars>>

\* An agent socket closes (or the relay closes it): its pair is removed and
\* the browser, if there is one, is sent session_disconnected.
RelayMacClose ==
  \E m \in MacSockets :
    /\ MacCloseOn(m)
    /\ browserOut' = SendIfOpen(browserOut, PeerOfMac(m), <<"session_disconnected">>)
    /\ doomed' = Overflow(browserOut, PeerOfMac(m)) \ {m}
    /\ UNCHANGED <<macOut, received, sentBy>>
    /\ UNCHANGED <<createVars, clientVars, terminalVars, linkVars>>

\* /browser upgrade: the connection waits for its first frame.
RelayBrowserOpen ==
  \E b \in BrowserSockets :
    /\ sock[b] = "new"
    /\ sock' = [sock EXCEPT ![b] = "awaiting"]
    /\ last' = [NoCall EXCEPT !.op = "open", !.sock = b]
    /\ UNCHANGED <<objects, sessions, macToSession, browserToSession, now,
                   ticks, nextId, joins, expiredCodes, droppedAt, extVars>>

\* The first frame of a browser is join: joined or error is the answer, the
\* first frame of the connection's queue, and the agent of the pair is told
\* of the browser.
RelayBrowserJoin ==
  \E b \in BrowserSockets : \E code \in InputCodes :
    /\ sock[b] = "awaiting"
    /\ BrowserJoinOn(b, code)
    /\ IF JoinResult(Registry, code, now) = "OK"
       THEN /\ browserOut' = Send(browserOut, b, Joined(objects[sessions[code]].sessionId))
            /\ macOut' = SendIfOpen(macOut, objects[sessions[code]].mac, <<"browser_connected">>)
            /\ doomed' = Overflow(macOut, objects[sessions[code]].mac)
       ELSE /\ browserOut' = Send(browserOut, b, Error(JoinResult(Registry, code, now)))
            /\ UNCHANGED <<macOut, doomed>>
    /\ UNCHANGED <<received, sentBy>>
    /\ UNCHANGED <<createVars, clientVars, terminalVars, linkVars>>

\* The first frame of a browser is rejoin.
RelayBrowserRejoin ==
  \E b \in BrowserSockets : \E sessionId \in SessionIds :
    /\ sock[b] = "awaiting"
    /\ BrowserRejoinOn(b, sessionId)
    /\ IF RejoinResult(Registry, sessionId, now) = "OK"
       THEN /\ browserOut' = Send(browserOut, b, Joined(sessionId))
            /\ macOut' = SendIfOpen(macOut, objects[sessionId].mac, <<"browser_connected">>)
            /\ doomed' = Overflow(macOut, objects[sessionId].mac)
       ELSE /\ browserOut' = Send(browserOut, b, Error(RejoinResult(Registry, sessionId, now)))
            /\ UNCHANGED <<macOut, doomed>>
    /\ UNCHANGED <<received, sentBy>>
    /\ UNCHANGED <<createVars, clientVars, terminalVars, linkVars>>

\* A payload frame (terminal_input, terminal_resize, a tab command) from an
\* Active browser is forwarded to the agent of its pair.
RelayForward ==
  \E b \in BrowserSockets : \E payload \in {NextPayload(b)} :
    /\ sock[b] = "joined"
    /\ b \notin doomed
    /\ PeerOfBrowser(b) # NULL
    /\ Len(sentBy[b]) < MaxFrames
    /\ sentBy' = [sentBy EXCEPT ![b] =
                   Append(@, [to |-> PeerOfBrowser(b), payload |-> payload])]
    /\ macOut' = SendIfOpen(macOut, PeerOfBrowser(b),
                            Forwarded("terminal_input", b, payload))
    /\ doomed' = Overflow(macOut, PeerOfBrowser(b))
    /\ last' = [NoCall EXCEPT !.op = "forward", !.sock = b]
    /\ UNCHANGED <<objects, sessions, macToSession, browserToSession, now,
                   ticks, sock, nextId, joins, expiredCodes, droppedAt>>
    /\ UNCHANGED <<browserOut, received>>
    /\ UNCHANGED <<createVars, clientVars, terminalVars, linkVars>>

\* A session_data frame from an agent is forwarded to the browser of its
\* pair; with no browser it is discarded.
RelayForwardToBrowser ==
  \E m \in MacSockets : \E payload \in {NextPayload(m)} :
    /\ sock[m] = "open"
    /\ m \notin doomed
    /\ Len(sentBy[m]) < MaxFrames
    /\ sentBy' = [sentBy EXCEPT ![m] =
                   Append(@, [to |-> PeerOfMac(m), payload |-> payload])]
    /\ browserOut' = SendIfOpen(browserOut, PeerOfMac(m),
                                Forwarded("terminal_data", m, payload))
    /\ doomed' = Overflow(browserOut, PeerOfMac(m))
    /\ last' = [NoCall EXCEPT !.op = "forward", !.sock = m]
    /\ UNCHANGED <<objects, sessions, macToSession, browserToSession, now,
                   ticks, sock, nextId, joins, expiredCodes, droppedAt>>
    /\ UNCHANGED <<macOut, received>>
    /\ UNCHANGED <<createVars, clientVars, terminalVars, linkVars>>

\* The outbound queue of the connection s.
OutOf(s) == IF s \in MacSockets THEN macOut[s] ELSE browserOut[s]

\* Variant: the writer takes the frame put into the queue last.
NextFrame_Last(s) == OutOf(s)[Len(OutOf(s))]

\* The frame the writer of s takes next: the head of what is pending.
NextFrame(s) == OutOf(s)[Len(received[s]) + 1]

\* The writer of an open connection takes the next frame of its outbound
\* queue and writes it to the socket.
RelayDrain ==
  \E s \in Sockets :
    /\ sock[s] \in {"open", "joined"}
    /\ s \notin doomed
    /\ Len(received[s]) < Len(OutOf(s))
    /\ received' = [received EXCEPT ![s] = Append(@, NextFrame(s))]
    /\ last' = [NoCall EXCEPT !.op = "drain", !.sock = s]
    /\ UNCHANGED <<objects, sessions, macToSession, browserToSession, now,
                   ticks, sock, nextId, joins, expiredCodes, droppedAt>>
    /\ UNCHANGED <<macOut, browserOut, doomed, sentBy>>
    /\ UNCHANGED <<createVars, clientVars, terminalVars, linkVars>>

\* A first frame that is neither join nor rejoin: error INVALID_MESSAGE,
\* then the connection is closed.
RelayRejectFrame ==
  \E b \in BrowserSockets :
    /\ sock[b] = "awaiting"
    /\ browserOut' = Send(browserOut, b, Error("INVALID_MESSAGE"))
    /\ sock' = [sock EXCEPT ![b] = AfterInvalidFrame]
    /\ last' = [NoCall EXCEPT !.op = "payload", !.sock = b,
                              !.result = "INVALID_MESSAGE"]
    /\ UNCHANGED <<objects, sessions, macToSession, browserToSession, now,
                   ticks, nextId, joins, expiredCodes, droppedAt>>
    /\ UNCHANGED <<macOut, received, doomed, sentBy>>
    /\ UNCHANGED <<createVars, clientVars, terminalVars, linkVars>>

\* A joined browser's socket closes (or the relay closes it):
\* disconnectBrowser, and its agent is sent browser_disconnected.
RelayBrowserClose ==
  \E b \in BrowserSockets :
    /\ BrowserCloseOn(b)
    /\ macOut' = SendIfOpen(macOut, PeerOfBrowser(b), <<"browser_disconnected">>)
    /\ doomed' = Overflow(macOut, PeerOfBrowser(b)) \ {b}
    /\ UNCHANGED <<browserOut, received, sentBy>>
    /\ UNCHANGED <<createVars, clientVars, terminalVars, linkVars>>

RelayNext ==
  \/ RelayMacOpen
  \/ RelayMacClose
  \/ RelayBrowserOpen
  \/ RelayBrowserJoin
  \/ RelayBrowserRejoin
  \/ RelayForward
  \/ RelayForwardToBrowser
  \/ RelayDrain
  \/ RelayRejectFrame
  \/ RelayBrowserClose
  \/ Sweep
  \/ Tick

RelaySpec ==
  Init /\ [][RelayNext /\ Cardinality(Opened') <= MaxOpened
                    /\ ticks' <= RelayTicks]_vars

(***************************************************************************)
(* The browser client: ConnectionProvider of ConnectionContext.tsx.  The   *)
(* relay and the network are its environment: a socket opens, closes,      *)
(* fails, and delivers joined or error in any order its readyState allows. *)
(***************************************************************************)
\* The session ids a joined frame or sessionStorage can hold.
ClientSessionIds == {randomUUID(1), randomUUID(2)}

\* The error codes of the frames the client tells apart.
ClientErrorCodes == {"INVALID_CODE", "MAC_DISCONNECTED", "SESSION_NOT_FOUND"}

\* The payload messages of sendTerminalInput and of the tab commands.
PayloadTypes == {"terminal_input", "tab_switch"}

\* new ReconnectingWebSocket(relayUrl, [], options): the n-th object, whose
\* listeners are those of connect ("join") or of attemptRejoin ("rejoin").
NewSocket(kind) ==
  [readyState |-> "CONNECTING", kind |-> kind, shouldReconnect |-> TRUE,
   retries |-> 0]

NextSocket == <<"ws", Cardinality(DOMAIN rws) + 1>>

\* Variant: close() leaves the reconnection on.
CloseSocket_StillReconnects(sockets, w) ==
  IF w = NULL THEN sockets
  ELSE [sockets EXCEPT ![w].readyState = IF @ = "CLOSED" THEN "CLOSED"
                                         ELSE "CLOSING"]

\* ReconnectingWebSocket.close(): no reconnection any more, and the socket
\* closes unless it is closed already.
CloseSocket(sockets, w) ==
  IF w = NULL THEN sockets
  ELSE [sockets EXCEPT ![w].shouldReconnect = FALSE,
                       ![w].readyState = IF @ = "CLOSED" THEN "CLOSED"
                                         ELSE "CLOSING"]

\* ws.send(JSON.stringify(message)), recorded with the client's state.
Sent(type, state, readyState) ==
  sent \cup {[type |-> type, state |-> state, readyState |-> readyState]}

\* Variant: the test of the connection state is missing.
CanSend_NoStateCheck ==
  wsRef # NULL /\ rws[wsRef].readyState = "OPEN"

\* The condition of sendMessageFn:
\* stateRef.current === 'connected' && ws && ws.readyState === WebSocket.OPEN
CanSend ==
  stateRef = "connected" /\ wsRef # NULL /\ rws[wsRef].readyState = "OPEN"

\* What the client's steps leave alone.
nonClientVars ==
  <<relayRegistryVars, createVars, relayVars, terminalVars, linkVars>>

\* The step the client has taken, for the properties.
Event(op, w, code) == [op |-> op, w |-> w, code |-> code, prev |-> ev.op]

\* Variant: the session id is not put into sessionStorage.
storeSessionId_Skips(id) == storedSessionId

\* storeSessionId(sessionId): sessionStorage.setItem(SESSION_STORAGE_KEY,
\* sessionId)
storeSessionId(id) == id

\* Variant: the item stays in sessionStorage.
clearStoredSessionId_Keeps == storedSessionId

\* clearStoredSessionId(): sessionStorage.removeItem(SESSION_STORAGE_KEY)
clearStoredSessionId == NULL

\* The mount effect: auto-rejoin if sessionStorage holds a session id.
MountOn ==
  /\ ~mounted
  /\ mounted' = TRUE
  /\ IF storedSessionId # NULL /\ stateRef = "disconnected"
     THEN \* attemptRejoin(stored)
          /\ stateRef' = "rejoining"
          /\ rws' = MapSet(CloseSocket(rws, wsRef), NextSocket, NewSocket("rejoin"))
          /\ wsRef' = NextSocket
          /\ ev' = Event("rejoin", NextSocket, "")
     ELSE /\ UNCHANGED <<stateRef, rws, wsRef>>
          /\ ev' = Event("mount", NULL, "")
  /\ UNCHANGED <<currentCodeRef, ctxSessionId, storedSessionId, sent,
                 rejoinClosed>>

Mount == MountOn /\ UNCHANGED nonClientVars

\* connect(sessionCode)
ConnectOn(code) ==
  /\ mounted
  /\ Cardinality(DOMAIN rws) < MaxSockets
  /\ stateRef' = "connecting"
  /\ ctxSessionId' = NULL
  /\ currentCodeRef' = code
  /\ rws' = MapSet(CloseSocket(rws, wsRef), NextSocket, NewSocket("join"))
  /\ wsRef' = NextSocket
  /\ ev' = Event("connect", NextSocket, "")
  /\ rejoinClosed' = FALSE
  /\ UNCHANGED <<storedSessionId, mounted, sent>>

Connect == \E code \in InputCodes : ConnectOn(code) /\ UNCHANGED nonClientVars

\* disconnect()
DisconnectOn ==
  /\ mounted
  /\ rws' = CloseSocket(rws, wsRef)
  /\ wsRef' = NULL
  /\ stateRef' = "disconnected"
  /\ ctxSessionId' = NULL
  /\ currentCodeRef' = NULL
  /\ storedSessionId' = clearStoredSessionId
  /\ ev' = Event("disconnect", wsRef, "")
  /\ UNCHANGED <<mounted, sent, rejoinClosed>>

Disconnect == DisconnectOn /\ UNCHANGED nonClientVars

\* sendMessage(message) with a payload message, from any state.
SendMessageOn(type) ==
  /\ mounted
  /\ sent' = IF CanSend
             THEN Sent(type, stateRef,
                       IF wsRef = NULL THEN "none" ELSE rws[wsRef].readyState)
             ELSE sent
  /\ ev' = Event("send", wsRef, "")
  /\ UNCHANGED <<stateRef, wsRef, rws, currentCodeRef, ctxSessionId,
                 storedSessionId, mounted, rejoinClosed>>

SendMessage ==
  \E type \in PayloadTypes : SendMessageOn(type) /\ UNCHANGED nonClientVars

\* The open event of the socket w.
WsOpenOn(w) ==
  /\ rws[w].readyState = "CONNECTING"
  /\ rws' = [rws EXCEPT ![w].readyState = "OPEN"]
  /\ IF rws[w].kind = "join"
     THEN /\ stateRef' = "authenticating"
          /\ sent' = IF currentCodeRef # NULL
                     THEN Sent("join", "authenticating", "OPEN") ELSE sent
     ELSE /\ sent' = Sent("rejoin", stateRef, "OPEN")
          /\ UNCHANGED stateRef
  /\ ev' = Event("open", w, "")
  /\ UNCHANGED <<wsRef, currentCodeRef, ctxSessionId, storedSessionId, mounted,
                 rejoinClosed>>

WsOpen == \E w \in DOMAIN rws : WsOpenOn(w) /\ UNCHANGED nonClientVars

\* The message event of the socket w with a joined frame.  A WebSocket
\* fires message events only while its readyState is OPEN.
WsJoinedOn(w, id) ==
  /\ rws[w].readyState = "OPEN"
  /\ stateRef' = "connected"
  /\ ctxSessionId' = id
  /\ storedSessionId' = storeSessionId(id)
  /\ ev' = Event("joined", w, "")
  /\ UNCHANGED <<wsRef, rws, currentCodeRef, mounted, sent, rejoinClosed>>

WsJoined ==
  \E w \in DOMAIN rws : \E id \in ClientSessionIds :
    WsJoinedOn(w, id) /\ UNCHANGED nonClientVars

\* The message event of the socket w with an error frame.
WsErrorFrameOn(w, code) ==
  /\ rws[w].readyState = "OPEN"
  /\ stateRef' = "disconnected"
  /\ ctxSessionId' = NULL
  /\ storedSessionId' =
       IF rws[w].kind = "rejoin"
          \/ code \in {"MAC_DISCONNECTED", "SESSION_NOT_FOUND"}
       THEN clearStoredSessionId ELSE storedSessionId
  /\ rws' = CloseSocket(rws, wsRef)
  /\ wsRef' = NULL
  /\ ev' = Event("errorFrame", w, code)
  /\ UNCHANGED <<currentCodeRef, mounted, sent, rejoinClosed>>

WsErrorFrame ==
  \E w \in DOMAIN rws : \E code \in ClientErrorCodes :
    WsErrorFrameOn(w, code) /\ UNCHANGED nonClientVars

\* The close event of the socket w.
WsCloseOn(w) ==
  /\ rws[w].readyState # "CLOSED"
  /\ rws' = [rws EXCEPT ![w].readyState = "CLOSED"]
  /\ IF stateRef = "connected"
     THEN /\ stateRef' = "reconnecting"
          /\ UNCHANGED <<storedSessionId, rejoinClosed>>
     ELSE IF rws[w].kind = "join"
          THEN /\ stateRef' = IF stateRef # "disconnected" /\ wsRef # NULL
                              THEN "reconnecting" ELSE stateRef
               /\ UNCHANGED <<storedSessionId, rejoinClosed>>
          ELSE IF stateRef = "rejoining"
               THEN /\ stateRef' = "disconnected"
                    /\ storedSessionId' = clearStoredSessionId
                    /\ rejoinClosed' = TRUE
               ELSE UNCHANGED <<stateRef, storedSessionId, rejoinClosed>>
  /\ ev' = Event("close", w, stateRef)
  /\ UNCHANGED <<wsRef, currentCodeRef, ctxSessionId, mounted, sent>>

WsClose == \E w \in DOMAIN rws : WsCloseOn(w) /\ UNCHANGED nonClientVars

\* The error event of the socket w: only attemptRejoin's listener acts.
WsErrorOn(w) ==
  /\ rws[w].readyState \in {"CONNECTING", "OPEN"}
  /\ rws[w].kind = "rejoin"
  /\ stateRef = "rejoining"
  /\ stateRef' = "disconnected"
  /\ storedSessionId' = clearStoredSessionId
  /\ ev' = Event("error", w, stateRef)
  /\ UNCHANGED <<wsRef, rws, currentCodeRef, ctxSessionId, mounted, sent,
                 rejoinClosed>>

WsError == \E w \in DOMAIN rws : WsErrorOn(w) /\ UNCHANGED nonClientVars

\* ReconnectingWebSocket connects again after a close it did not ask for.
WsReconnectOn(w) ==
  /\ rws[w].readyState = "CLOSED"
  /\ rws[w].shouldReconnect
  /\ rws[w].retries < MaxReconnects
  /\ rws' = [rws EXCEPT ![w].readyState = "CONNECTING",
                        ![w].retries = @ + 1]
  /\ ev' = Event("reconnect", w, "")
  /\ UNCHANGED <<stateRef, wsRef, currentCodeRef, ctxSessionId,
                 storedSessionId, mounted, sent, rejoinClosed>>

WsReconnect == \E w \in DOMAIN rws : WsReconnectOn(w) /\ UNCHANGED nonClientVars

ClientInit ==
  /\ RegistryInit(Sockets)
  /\ RelayStart
  /\ \E stored \in ClientSessionIds \cup {NULL} : ClientStart(stored)
  /\ TerminalStart
  /\ LinkStart

ClientNext ==
  \/ Mount
  \/ Connect
  \/ Disconnect
  \/ SendMessage
  \/ WsOpen
  \/ WsJoined
  \/ WsErrorFrame
  \/ WsClose
  \/ WsError
  \/ WsReconnect

ClientSpec == ClientInit /\ [][ClientNext]_vars

(***************************************************************************)
(* The browser client connected to the relay: every connection a client    *)
(* socket opens is a new browser socket of the relay, the join frame and   *)
(* the relay's answer travel between the two, and each side notices the    *)
(* loss of a connection in a step of its own.                              *)
(***************************************************************************)
\* Connections the relay accepts in a run with the connected client.
LinkOpened == 3

\* Sockets the client creates in a run with the relay.
LinkSockets == 1

\* The relay's browser socket of the next connection.
FreshBrowser(b) ==
  /\ sock[b] = "new"
  /\ \A other \in BrowserSockets : sock[other] = "new" => other[2] >= b[2]

\* The connection of the client socket w is up: the open listener sends
\* join with currentCodeRef.current, and the relay has a browser connection
\* waiting for its first frame.
LinkOpen ==
  \E w \in DOMAIN rws : \E b \in BrowserSockets :
    /\ rws[w].kind = "join"
    /\ FreshBrowser(b)
    /\ WsOpenOn(w)
    /\ sock' = [sock EXCEPT ![b] = "awaiting"]
    /\ last' = [NoCall EXCEPT !.op = "open", !.sock = b]
    /\ link' = MapSet(link, w, b)
    /\ toRelay' = IF currentCodeRef # NULL
                  THEN MapSet(toRelay, b, <<"join", currentCodeRef>>)
                  ELSE toRelay
    /\ UNCHANGED <<objects, sessions, macToSession, browserToSession, now,
                   ticks, nextId, joins, expiredCodes, droppedAt>>
    /\ UNCHANGED <<toClient, createVars, relayVars, terminalVars>>

\* The relay handles the join frame of the browser socket b and answers
\* joined or error.
LinkJoin ==
  \E b \in DOMAIN toRelay :
    /\ sock[b] = "awaiting"
    /\ BrowserJoinOn(b, toRelay[b][2])
    /\ toRelay' = MapDelete(toRelay, b)
    /\ toClient' =
         MapSet(toClient, b,
                IF JoinResult(Registry, toRelay[b][2], now) = "OK"
                THEN Joined(objects[sessions[toRelay[b][2]]].sessionId)
                ELSE Error(JoinResult(Registry, toRelay[b][2], now)))
    /\ UNCHANGED <<link, createVars, relayVars, clientVars, terminalVars>>

\* The relay's answer reaches the client socket w, which is still open on
\* that connection.
LinkAnswer ==
  \E w \in DOMAIN link :
    /\ link[w] \in DOMAIN toClient
    /\ IF toClient[link[w]][1] = "joined"
       THEN WsJoinedOn(w, toClient[link[w]][2])
       ELSE WsErrorFrameOn(w, toClient[link[w]][2])
    /\ toClient' = MapDelete(toClient, link[w])
    /\ UNCHANGED <<link, toRelay>>
    /\ UNCHANGED <<relayRegistryVars, createVars, relayVars, terminalVars>>

ReconnectNext ==
  \/ Mount
  \/ Connect
  \/ Disconnect
  \/ WsClose
  \/ WsReconnect
  \/ LinkOpen
  \/ LinkJoin
  \/ LinkAnswer
  \/ MacConnect
  \/ MacClose
  \/ BrowserClose
  \/ Sweep
  \/ Tick

ReconnectSpec ==
  Init /\ [][ReconnectNext /\ Cardinality(Opened') <= LinkOpened
                          /\ Cardinality(DOMAIN rws') <= LinkSockets]_vars

(***************************************************************************)
(* The binary TerminalProvider (TerminalContext with writeBinaryData): the *)
(* calls of the Terminal components and of the binary handler, in any      *)
(* order.                                                                  *)
(***************************************************************************)
\* What the TerminalProviders' steps leave alone.
nonTerminalVars ==
  <<relayRegistryVars, createVars, relayVars, clientVars, linkVars, tabsVars,
    componentVars>>

TerminalCall(op, sessionId, data) ==
  [op |-> op, sessionId |-> sessionId, data |-> data]

\* The Terminal instance a component makes for the session.
TerminalOf(sessionId) == <<"terminal", sessionId>>

\* pendingDataRef.current.get(sessionId), [] for undefined.
PendingOf(sessionId) ==
  IF MapHas(pendingDataRef, sessionId) THEN pendingDataRef[sessionId] ELSE <<>>

\* writeChunk(terminal, chunk) for every chunk of chunks.
WriteChunks(log, sessionId, chunks) ==
  [log EXCEPT ![sessionId] = @ \o chunks]

\* registerTerminal(sessionId, terminal)
RegisterTerminal ==
  \E sessionId \in TabSessions :
    /\ terminalsRef' = MapSet(terminalsRef, sessionId, TerminalOf(sessionId))
    /\ UNCHANGED <<pendingDataRef, readyRef, arrived, written>>
    /\ UNCHANGED <<textVars, tlast, nonTerminalVars>>

\* markTerminalReady(sessionId)
MarkTerminalReady ==
  \E sessionId \in TabSessions :
    /\ readyRef' = readyRef \cup {sessionId}
    /\ written' = IF MapHas(terminalsRef, sessionId)
                        /\ MapHas(pendingDataRef, sessionId)
                        /\ Len(pendingDataRef[sessionId]) > 0
                  THEN WriteChunks(written, sessionId, pendingDataRef[sessionId])
                  ELSE written
    /\ pendingDataRef' = MapDelete(pendingDataRef, sessionId)
    /\ UNCHANGED <<terminalsRef, arrived>>
    /\ UNCHANGED <<textVars, tlast, nonTerminalVars>>

\* unregisterTerminal(sessionId)
UnregisterTerminal ==
  \E sessionId \in TabSessions :
    /\ terminalsRef' = MapDelete(terminalsRef, sessionId)
    /\ readyRef' = readyRef \ {sessionId}
    /\ UNCHANGED <<pendingDataRef, arrived, written>>
    /\ UNCHANGED <<textVars, tlast, nonTerminalVars>>

\* writeBinaryData(sessionId, data)
WriteBinaryData ==
  \E sessionId \in TabSessions : \E data \in Chunks :
    /\ Len(arrived[sessionId]) < MaxChunks
    /\ arrived' = [arrived EXCEPT ![sessionId] = Append(@, data)]
    /\ IF MapHas(terminalsRef, sessionId) /\ sessionId \in readyRef
       THEN /\ written' = WriteChunks(written, sessionId, <<data>>)
            /\ UNCHANGED pendingDataRef
       ELSE /\ pendingDataRef' =
                 MapSet(pendingDataRef, sessionId,
                        Append(PendingOf(sessionId), data))
            /\ UNCHANGED written
    /\ UNCHANGED <<terminalsRef, readyRef>>
    /\ UNCHANGED <<textVars, tlast, nonTerminalVars>>

\* The message handler's case '__disconnect'; the history starts again.
BinaryDisconnect ==
  /\ pendingDataRef' = EmptyMap
  /\ readyRef' = {}
  /\ arrived' = [S \in TabSessions |-> <<>>]
  /\ written' = [S \in TabSessions |-> <<>>]
  /\ UNCHANGED terminalsRef
  /\ UNCHANGED <<textVars, tlast, nonTerminalVars>>

BinaryNext ==
  \/ RegisterTerminal
  \/ MarkTerminalReady
  \/ UnregisterTerminal
  \/ WriteBinaryData
  \/ BinaryDisconnect

BinarySpec == Init /\ [][BinaryNext]_vars

(***************************************************************************)
(* The text TerminalProvider (ui/src/lib/context/TerminalContext.tsx with  *)
(* writeData): the calls of the Terminal component, of TabsProvider and of *)
(* the message handler, in any order.                                      *)
(***************************************************************************)
\* A chunk of pendingDataRef.current.
Chunk(sessionId, data) == [sessionId |-> sessionId, data |-> data]

\* terminal.write(data): the write with the terminal it went to.
Write(terminal, chunk) ==
  [terminal |-> terminal, sessionId |-> chunk.sessionId, data |-> chunk.data]

\* pendingDataRef.current.filter(d => d.sessionId === sessionId)
Matching(pending, sessionId) ==
  SelectSeq(pending, LAMBDA d : d.sessionId = sessionId)

\* pendingDataRef.current.filter(d => d.sessionId !== sessionId)
NotMatching(pending, sessionId) ==
  SelectSeq(pending, LAMBDA d : d.sessionId # sessionId)

\* findTerminal(): the first value of the terminals Map, or undefined.
findTerminal ==
  IF textTerminalsRef = <<>> THEN NULL ELSE TerminalOf(Head(textTerminalsRef))

\* terminalsRef.current.set(sessionId, terminal): a new key goes last.
TextMapSet(keys, sessionId) ==
  IF \E i \in DOMAIN keys : keys[i] = sessionId THEN keys
  ELSE Append(keys, sessionId)

\* registerTerminal(sessionId, terminal)
TextRegisterTerminal ==
  \E sessionId \in TabSessions :
    /\ textTerminalsRef' = TextMapSet(textTerminalsRef, sessionId)
    /\ textWritten' =
         textWritten \o
         [i \in 1..Len(Matching(textPendingRef, sessionId)) |->
            Write(TerminalOf(sessionId), Matching(textPendingRef, sessionId)[i])]
    /\ textPendingRef' = NotMatching(textPendingRef, sessionId)
    /\ tlast' = TerminalCall("registerTerminal", sessionId, "")
    /\ UNCHANGED <<activeSessionIdRef, textArrived>>
    /\ UNCHANGED <<terminalsRef, binaryVars, nonTerminalVars>>

\* unregisterTerminal(sessionId)
TextUnregisterTerminal ==
  \E sessionId \in TabSessions :
    /\ textTerminalsRef' = SelectSeq(textTerminalsRef, LAMBDA k : k # sessionId)
    /\ tlast' = TerminalCall("unregisterTerminal", sessionId, "")
    /\ UNCHANGED <<textPendingRef, activeSessionIdRef, textArrived, textWritten>>
    /\ UNCHANGED <<terminalsRef, binaryVars, nonTerminalVars>>

\* setActiveSession(sessionId), called by TabsProvider with a session or
\* with null.
SetActiveSession ==
  \E sessionId \in TabSessions \cup {NoSession} :
    /\ activeSessionIdRef' = sessionId
    /\ tlast' = TerminalCall("setActiveSession", sessionId, "")
    /\ UNCHANGED <<textTerminalsRef, textPendingRef, textArrived, textWritten>>
    /\ UNCHANGED <<terminalsRef, binaryVars, nonTerminalVars>>

\* writeData(sessionId, data)
WriteData ==
  \E sessionId \in TabSessions : \E data \in Chunks :
    /\ Len(textArrived) < MaxChunks
    /\ textArrived' = Append(textArrived, Chunk(sessionId, data))
    /\ IF activeSessionIdRef # NoSession /\ sessionId # activeSessionIdRef
       THEN UNCHANGED <<textWritten, textPendingRef>>
       ELSE IF findTerminal # NULL
            THEN /\ textWritten' =
                      Append(textWritten,
                             Write(findTerminal, Chunk(sessionId, data)))
                 /\ UNCHANGED textPendingRef
            ELSE /\ textPendingRef' =
                      Append(textPendingRef, Chunk(sessionId, data))
                 /\ UNCHANGED textWritten
    /\ tlast' = TerminalCall("writeData", sessionId, data)
    /\ UNCHANGED <<textTerminalsRef, activeSessionIdRef>>
    /\ UNCHANGED <<terminalsRef, binaryVars, nonTerminalVars>>

\* The message handler's case '__disconnect'; the history starts again.
TextDisconnectOn ==
  /\ activeSessionIdRef' = NoSession
  /\ textPendingRef' = <<>>
  /\ textArrived' = <<>>
  /\ textWritten' = <<>>
  /\ tlast' = TerminalCall("__disconnect", "", "")
  /\ UNCHANGED textTerminalsRef

TextDisconnect ==
  TextDisconnectOn /\ UNCHANGED <<terminalsRef, binaryVars, nonTerminalVars>>

TextNext ==
  \/ TextRegisterTerminal
  \/ TextUnregisterTerminal
  \/ SetActiveSession
  \/ WriteData
  \/ TextDisconnect

TextSpec == Init /\ [][TextNext]_vars

(***************************************************************************)
(* The TabsProvider (ui/src/lib/context/TerminalContext.tsx, second part): *)
(* the inbound tab messages of the agent, switchTab, and __disconnect.     *)
(* Every handler is one step: the state React holds after the updaters the *)
(* handler has queued have run.                                            *)
(***************************************************************************)
\* Tabs in a tab_list message.
MaxTabs == 2

\* The tabIds of the agent's tabs; split panes share one.
TabIds == {"t1", "t2"}

\* TabInfo, without the title.
TabInfos == [sessionId : TabSessions, tabId : TabIds, isActive : BOOLEAN]

\* The tab lists the agent sends: one entry per session, at most one active.
TabLists ==
  {l \in UNION {[1..n -> TabInfos] : n \in 0..MaxTabs} :
     /\ \A i, j \in DOMAIN l : l[i].sessionId = l[j].sessionId => i = j
     /\ \A i, j \in DOMAIN l : (l[i].isActive /\ l[j].isActive) => i = j}

\* What the TabsProvider's steps leave alone, the client apart.
nonTabsVars ==
  <<relayRegistryVars, createVars, relayVars, linkVars, binaryVars,
    componentVars>>

\* The part of the text TerminalProvider that the tab handlers do not
\* reach.
textRest == <<textTerminalsRef, textArrived, textWritten>>

\* The least index of a set of indices, 0 if there is none: the entry that
\* Array.prototype.find gives.
FirstOf(indices) ==
  IF indices = {} THEN 0
  ELSE CHOOSE i \in indices : \A j \in indices : i <= j

\* prev.map(t => ({...t, isActive: t.sessionId === sessionId}))
MarkActive(list, sessionId) ==
  [i \in DOMAIN list |->
     [list[i] EXCEPT !.isActive = (list[i].sessionId = sessionId)]]

\* handleSetTabs(newTabs)
handleSetTabs(newTabs) ==
  LET flagged == FirstOf({i \in DOMAIN newTabs : newTabs[i].isActive})
      active == IF flagged # 0 THEN flagged
                ELSE IF Len(newTabs) > 0 THEN 1 ELSE 0
  IN /\ tabs' = newTabs
     /\ IF active # 0
        THEN /\ activeTabId' = newTabs[active].sessionId
             /\ activeSessionIdRef' = newTabs[active].sessionId
        ELSE UNCHANGED <<activeTabId, activeSessionIdRef>>
     /\ tlast' = TerminalCall("tab_list", "", "")
     /\ UNCHANGED textPendingRef

\* handleTabSwitch({tabId, sessionId}); sessionId may be missing.
handleTabSwitch(tabId, sessionId) ==
  LET given == IF sessionId = NoSession THEN 0
               ELSE FirstOf({i \in DOMAIN tabs : tabs[i].sessionId = sessionId})
      tabSessions == {i \in DOMAIN tabs : tabs[i].tabId = tabId}
      flagged == FirstOf({i \in tabSessions : tabs[i].isActive})
      chosen == IF given # 0 THEN given
                ELSE IF flagged # 0 THEN flagged
                ELSE FirstOf(tabSessions)
  IN /\ IF chosen # 0
        THEN /\ activeTabId' = tabs[chosen].sessionId
             /\ activeSessionIdRef' = tabs[chosen].sessionId
             /\ tabs' = MarkActive(tabs, tabs[chosen].sessionId)
        ELSE UNCHANGED <<tabs, activeTabId, activeSessionIdRef>>
     /\ tlast' = TerminalCall("tab_switch", sessionId, tabId)
     /\ UNCHANGED textPendingRef

\* handleTabCreated(tab)
handleTabCreated(tab) ==
  /\ tabs' = IF \E i \in DOMAIN tabs : tabs[i].sessionId = tab.sessionId
             THEN tabs
             ELSE IF tab.isActive
                  THEN MarkActive(Append(tabs, tab), tab.sessionId)
                  ELSE Append(tabs, tab)
  /\ IF tab.isActive
     THEN /\ activeTabId' = tab.sessionId
          /\ activeSessionIdRef' = tab.sessionId
     ELSE UNCHANGED <<activeTabId, activeSessionIdRef>>
  /\ tlast' = TerminalCall("tab_created", tab.sessionId, tab.tabId)
  /\ UNCHANGED textPendingRef

\* handleTabClosed(sessionId): the list is filtered; if the closed tab was
\* the active one, the first remaining tab is marked and made the active
\* session, and the updater of activeTabId returns null.
handleTabClosed(sessionId) ==
  LET filtered == SelectSeq(tabs, LAMBDA t : t.sessionId # sessionId)
  IN /\ IF activeTabId = sessionId
        THEN /\ activeTabId' = NoSession
             /\ IF Len(filtered) > 0
                THEN /\ activeSessionIdRef' = filtered[1].sessionId
                     /\ tabs' = MarkActive(filtered, filtered[1].sessionId)
                ELSE /\ activeSessionIdRef' = NoSession
                     /\ tabs' = filtered
        ELSE /\ tabs' = filtered
             /\ UNCHANGED <<activeTabId, activeSessionIdRef>>
     /\ tlast' = TerminalCall("tab_closed", sessionId, "")
     /\ UNCHANGED textPendingRef

\* reset()
reset ==
  /\ tabs' = <<>>
  /\ activeTabId' = NoSession

\* switchTab(sessionId), the message to the agent apart: clearTerminal()
\* empties the buffer.
switchTab(sessionId) ==
  /\ IF \E i \in DOMAIN tabs : tabs[i].sessionId = sessionId
     THEN /\ textPendingRef' = <<>>
          /\ activeTabId' = sessionId
          /\ activeSessionIdRef' = sessionId
          /\ tabs' = MarkActive(tabs, sessionId)
     ELSE UNCHANGED <<tabs, activeTabId, activeSessionIdRef, textPendingRef>>
  /\ tlast' = TerminalCall("switchTab", sessionId, "")

\* The message handler's case 'tab_list'.
TabList ==
  \E newTabs \in TabLists :
    handleSetTabs(newTabs) /\ UNCHANGED <<nonTabsVars, clientVars, textRest>>

\* The message handler's case 'tab_switch'.
TabSwitch ==
  \E tabId \in TabIds : \E sessionId \in TabSessions \cup {NoSession} :
    handleTabSwitch(tabId, sessionId) /\ UNCHANGED <<nonTabsVars, clientVars, textRest>>

\* The message handler's case 'tab_created'.
TabCreated ==
  \E tab \in TabInfos :
    handleTabCreated(tab) /\ UNCHANGED <<nonTabsVars, clientVars, textRest>>

\* The message handler's case 'tab_closed': handleTabClosed(msg.tabId),
\* with the tabId the agent puts into the message (the tab's tabId, or its
\* sessionId as the browser's own switchTab does).
TabClosed ==
  \E tabId \in TabIds \cup TabSessions :
    handleTabClosed(tabId) /\ UNCHANGED <<nonTabsVars, clientVars, textRest>>

\* switchTab(sessionId) of the tab bar, with sendMessage({type:
\* 'tab_switch', tabId: sessionId}).
SwitchTab ==
  \E sessionId \in TabSessions :
    /\ switchTab(sessionId)
    /\ sent' = IF CanSend /\ \E i \in DOMAIN tabs : tabs[i].sessionId = sessionId
               THEN Sent("tab_switch", stateRef, rws[wsRef].readyState)
               ELSE sent
    /\ UNCHANGED <<stateRef, wsRef, rws, currentCodeRef, ctxSessionId,
                   storedSessionId, mounted, ev, rejoinClosed>>
    /\ UNCHANGED <<nonTabsVars, textRest>>

\* The handlers' case '__disconnect' of both providers.
DisconnectHandlers == TextDisconnectOn /\ reset

TabsDisconnect == DisconnectHandlers /\ UNCHANGED <<nonTabsVars, clientVars>>

TabsNext ==
  \/ TabList
  \/ TabSwitch
  \/ TabCreated
  \/ TabClosed
  \/ SwitchTab
  \/ TabsDisconnect

TabsSpec == Init /\ [][TabsNext]_vars

(***************************************************************************)
(* The ConnectionProvider with the handlers of the TerminalProvider and of *)
(* the TabsProvider registered: disconnect() sends __disconnect to them,   *)
(* and the frames of a joined socket reach them.                           *)
(***************************************************************************)
\* The client's socket is joined and open: the relay forwards the agent's
\* frames to it.
Receives ==
  stateRef = "connected" /\ wsRef # NULL /\ rws[wsRef].readyState = "OPEN"

\* disconnect(), with the __disconnect message for every handler.
UiDisconnect == DisconnectOn /\ DisconnectHandlers /\ UNCHANGED nonTabsVars

\* A tab_list frame arrives and is forwarded to the handlers.
UiTabList == Receives /\ TabList

\* A terminal_data frame arrives and is forwarded to the handlers.
UiTerminalData == Receives /\ WriteData

UiNext ==
  \/ Mount
  \/ Connect
  \/ UiDisconnect
  \/ WsOpen
  \/ WsJoined
  \/ WsErrorFrame
  \/ WsClose
  \/ UiTabList
  \/ UiTerminalData

UiSpec ==
  Init /\ [][UiNext /\ Cardinality(DOMAIN rws') <= LinkSockets]_vars

(***************************************************************************)
(* The Terminal component (ui/src/lib/components/Terminal.tsx) on the      *)
(* terminal page: the page renders one Terminal with sessionId =           *)
(* activeSessionId while there is an active session, so the component      *)
(* mounts when a session becomes active, gets a new sessionId on a tab     *)
(* switch, and unmounts when there is no active session any more.  The     *)
(* terminals Map holds the xterm instances themselves.                     *)
(***************************************************************************)
\* The number of xterm instances the components make.
MaxXterms == 2

\* new XTerminal(...): the n-th instance.
XTerminal(n) == <<"xterm", n>>

\* What the Terminal component's steps leave alone.
nonComponentVars ==
  <<relayRegistryVars, createVars, relayVars, clientVars, linkVars, tabsVars,
    binaryVars>>

\* findTerminal() on the Map of instances: its first value, or undefined.
findXterm ==
  IF textTerminalsRef = <<>> THEN NULL
  ELSE textTerminals[Head(textTerminalsRef)]

\* registerTerminal(sessionId, terminal) with the instance it is given.
registerTerminal(sessionId, terminal) ==
  /\ textTerminalsRef' = TextMapSet(textTerminalsRef, sessionId)
  /\ textTerminals' = MapSet(textTerminals, sessionId, terminal)
  /\ textWritten' =
       textWritten \o
       [i \in 1..Len(Matching(textPendingRef, sessionId)) |->
          Write(terminal, Matching(textPendingRef, sessionId)[i])]
  /\ textPendingRef' = NotMatching(textPendingRef, sessionId)

\* unregisterTerminal(sessionId)
unregisterTerminal(sessionId) ==
  /\ textTerminalsRef' = SelectSeq(textTerminalsRef, LAMBDA k : k # sessionId)
  /\ textTerminals' =
       IF MapHas(textTerminals, sessionId)
       THEN MapDelete(textTerminals, sessionId) ELSE textTerminals

\* The page renders a Terminal for the active session: the mount effect makes
\* the xterm instance and registers it under sessionIdRef.current; the
\* registration effect, which runs after it, registers the same instance
\* under the same id again.
TerminalMount ==
  /\ terminalRef = NULL
  /\ activeSessionIdRef # NoSession
  /\ xterms < MaxXterms
  /\ xterms' = xterms + 1
  /\ terminalRef' = XTerminal(xterms + 1)
  /\ sessionIdRef' = activeSessionIdRef
  /\ registerTerminal(activeSessionIdRef, XTerminal(xterms + 1))
  /\ tlast' = TerminalCall("mount", activeSessionIdRef, "")
  /\ UNCHANGED <<disposed, activeSessionIdRef, textArrived>>
  /\ UNCHANGED nonComponentVars

\* The mounted component is rendered with another sessionId (tab switch):
\* sessionIdRef.current follows, and the registration effect registers the
\* instance under the new id.
TerminalRender ==
  /\ terminalRef # NULL
  /\ activeSessionIdRef # NoSession
  /\ activeSessionIdRef # sessionIdRef
  /\ sessionIdRef' = activeSessionIdRef
  /\ registerTerminal(activeSessionIdRef, terminalRef)
  /\ tlast' = TerminalCall("render", activeSessionIdRef, "")
  /\ UNCHANGED <<terminalRef, disposed, xterms, activeSessionIdRef,
                 textArrived>>
  /\ UNCHANGED nonComponentVars

\* The page stops rendering the Terminal: the cleanup of the mount effect.
TerminalUnmount ==
  /\ terminalRef # NULL
  /\ activeSessionIdRef = NoSession
  /\ unregisterTerminal(sessionIdRef)
  /\ disposed' = disposed \cup {terminalRef}
  /\ terminalRef' = NULL
  /\ sessionIdRef' = NoSession
  /\ tlast' = TerminalCall("unmount", sessionIdRef, "")
  /\ UNCHANGED <<xterms, activeSessionIdRef, textPendingRef, textArrived,
                 textWritten>>
  /\ UNCHANGED nonComponentVars

\* writeData(sessionId, data) with the instances of the Map.
TerminalWriteData ==
  \E sessionId \in TabSessions : \E data \in Chunks :
    /\ Len(textArrived) < MaxChunks
    /\ textArrived' = Append(textArrived, Chunk(sessionId, data))
    /\ IF activeSessionIdRef # NoSession /\ sessionId # activeSessionIdRef
       THEN UNCHANGED <<textWritten, textPendingRef>>
       ELSE IF findXterm # NULL
            THEN /\ textWritten' =
                      Append(textWritten,
                             Write(findXterm, Chunk(sessionId, data)))
                 /\ UNCHANGED textPendingRef
            ELSE /\ textPendingRef' =
                      Append(textPendingRef, Chunk(sessionId, data))
                 /\ UNCHANGED textWritten
    /\ tlast' = TerminalCall("writeData", sessionId, data)
    /\ UNCHANGED <<textTerminalsRef, activeSessionIdRef, componentVars>>
    /\ UNCHANGED nonComponentVars

PageNext ==
  \/ SetActiveSession
  \/ TextDisconnect
  \/ TerminalMount
  \/ TerminalRender
  \/ TerminalUnmount
  \/ TerminalWriteData

PageSpec == Init /\ [][PageNext]_vars

(***************************************************************************)
(* Properties                                                              *)
(***************************************************************************)
\* The Session a code is the key of, in this state and in the next.
Pair(c) == objects[sessions[c]]

PairNext(c) == objects'[sessions'[c]]

\* The step is a call of joinSession with code c.
JoinStep(c) == last'.op = "join" /\ last'.code = c

\* C1: while a browser is joined to the pair of a live code, every further
\* join with that code returns ALREADY_JOINED and the pair keeps its browser.
C1_SecondJoinRejected ==
  [][\A c \in DOMAIN sessions :
       (JoinStep(c) /\ Pair(c).browser # NULL)
         => /\ last'.result = "ALREADY_JOINED"
            /\ c \in DOMAIN sessions'
            /\ sessions'[c] = sessions[c]
            /\ PairNext(c).browser = Pair(c).browser
            /\ PairNext(c).browser # last'.sock]_vars

C1_Witness ==
  /\ last.op = "join"
  /\ last.result = "ALREADY_JOINED"
  /\ last.code \in DOMAIN sessions
  /\ Pair(last.code).browser \in BrowserSockets \ {last.sock}
  /\ sock[Pair(last.code).browser] = "joined"

\* C2: a pair with a browser has expiresAt = Infinity, and neither the
\* expiry check of join nor cleanupExpired removes such a pair.
C2_JoinedNeverExpires ==
  /\ [](\A c \in DOMAIN sessions :
          Pair(c).browser # NULL => Pair(c).expiresAt = Infinity)
  /\ [][\A c \in DOMAIN sessions :
          (last'.op \in {"join", "cleanup"} /\ Pair(c).browser # NULL)
            => (c \in DOMAIN sessions' /\ sessions'[c] = sessions[c])]_vars

C2_Witness ==
  /\ last.op = "cleanup"
  /\ \E c \in DOMAIN sessions :
       /\ Pair(c).browser # NULL
       /\ now > Pair(c).createdAt + 300000

\* C3: disconnectBrowser(b) for the browser b of pair P at time now leaves
\* P in the registry under its code with the same session id and agent,
\* with browser null and expiresAt = now + 300000, and b out of the index.
C3_DisconnectDemotes ==
  [][\A c \in DOMAIN sessions :
       (last'.op = "disconnect" /\ Pair(c).browser = last'.sock)
         => /\ c \in DOMAIN sessions'
            /\ sessions'[c] = sessions[c]
            /\ PairNext(c).browser = NULL
            /\ PairNext(c).expiresAt = now + 300000
            /\ findSessionByBrowser(Registry', last'.sock) = NULL
            /\ PairNext(c).code = c
            /\ PairNext(c).sessionId = Pair(c).sessionId
            /\ PairNext(c).mac = Pair(c).mac
            /\ findSessionByMac(Registry', Pair(c).mac) = sessions[c]]_vars

C3_Witness ==
  /\ last.op = "disconnect"
  /\ last.result = "OK"
  /\ now > 0
  /\ last.code \in DOMAIN sessions
  /\ Pair(last.code).browser = NULL
  /\ Pair(last.code).expiresAt = now + 300000
  /\ Pair(last.code).createdAt < now

\* C4: removeSession(P.code) on the agent's disconnect destroys the pair: the
\* code, the agent and the browser are no longer found, a join with the code
\* returns INVALID_CODE and no pair has P's session id.
C4_AgentDisconnectDestroys ==
  [][\A c \in DOMAIN sessions :
       (last'.op = "remove" /\ last'.code = c)
         => /\ getSession(Registry', c) = NULL
            /\ findSessionByMac(Registry', Pair(c).mac) = NULL
            /\ Pair(c).browser # NULL
                 => findSessionByBrowser(Registry', Pair(c).browser) = NULL
            /\ JoinResult(Registry', c, now') = "INVALID_CODE"
            /\ \A d \in DOMAIN sessions' :
                 PairNext(d).sessionId # Pair(c).sessionId
            /\ \A id \in DOMAIN objects' :
                 objects'[id].sessionId # Pair(c).sessionId]_vars

C4_Witness ==
  /\ last.op = "remove"
  /\ last.code \notin DOMAIN sessions
  /\ \E b \in BrowserSockets :
       sock[b] = "joined" /\ findSessionByBrowser(Registry, b) = NULL

\* The pairs cleanupExpired has to remove at time now.
SweepSet == {c \in DOMAIN sessions :
               /\ Pair(c).browser = NULL
               /\ Pair(c).expiresAt # Infinity
               /\ Pair(c).expiresAt < now}

\* C5: cleanupExpired removes exactly the pairs without browser whose
\* expiresAt < now, leaves every other pair and its index entries as they
\* were, and returns the number of pairs removed.
C5_SweepExact ==
  [][last'.op = "cleanup"
       => /\ DOMAIN sessions' = (DOMAIN sessions) \ SweepSet
          /\ \A c \in DOMAIN sessions' :
               sessions'[c] = sessions[c] /\ PairNext(c) = Pair(c)
          /\ macToSession' =
               [m \in {Pair(c).mac : c \in DOMAIN sessions'} |-> macToSession[m]]
          /\ browserToSession' =
               [b \in {Pair(c).browser : c \in DOMAIN sessions'} \ {NULL}
                  |-> browserToSession[b]]
          /\ last'.count = Cardinality(SweepSet)]_vars

C5_Witness ==
  /\ last.op = "cleanup"
  /\ last.count >= 1
  /\ \E c \in DOMAIN sessions :
       Pair(c).browser = NULL /\ Pair(c).expiresAt = now

\* C6 as stated: on an unjoined pair, join at now = expiresAt returns
\* EXPIRED_CODE and join at now < expiresAt succeeds.
C6_BoundaryExpired ==
  [][\A c \in DOMAIN sessions :
       (JoinStep(c) /\ Pair(c).browser = NULL)
         => /\ now = Pair(c).expiresAt => last'.result = "EXPIRED_CODE"
            /\ now < Pair(c).expiresAt => last'.result = "OK"]_vars

\* C6 amended: on an unjoined pair, join at now > expiresAt returns
\* EXPIRED_CODE and removes the pair; join at now <= expiresAt succeeds.
C6_ExpiryStrict ==
  [][\A c \in DOMAIN sessions :
       (JoinStep(c) /\ Pair(c).browser = NULL)
         => /\ now > Pair(c).expiresAt
                 => (last'.result = "EXPIRED_CODE" /\ c \notin DOMAIN sessions')
            /\ now <= Pair(c).expiresAt
                 => /\ last'.result = "OK"
                    /\ c \in DOMAIN sessions'
                    /\ PairNext(c).browser = last'.sock]_vars

C6_Witness ==
  /\ last.op = "join"
  /\ last.result = "OK"
  /\ last.code \in DOMAIN sessions
  /\ Pair(last.code).createdAt = 0
  /\ now = 300000
  /\ joins[sessions[last.code]] = 1

\* C7: join is case-insensitive: an input that differs from the code of a
\* live, unexpired, unjoined pair only in letter case joins that pair.
C7_CaseInsensitive ==
  [][\A c \in DOMAIN sessions :
       (/\ last'.op = "join"
        /\ toUpperCase(last'.code) = c
        /\ Pair(c).browser = NULL
        /\ now <= Pair(c).expiresAt)
         => /\ last'.result = "OK"
            /\ c \in DOMAIN sessions'
            /\ PairNext(c).browser = last'.sock]_vars

\* C8: a join that fails with INVALID_CODE or ALREADY_JOINED leaves the
\* registry as it was: pairs, their fields and both indices.
C8_FailedJoinNoEffect ==
  [][(last'.op = "join" /\ last'.result \in {"INVALID_CODE", "ALREADY_JOINED"})
       => /\ sessions' = sessions
          /\ objects' = objects
          /\ macToSession' = macToSession
          /\ browserToSession' = browserToSession]_vars

C8_Witness ==
  /\ last.op = "join"
  /\ last.result = "INVALID_CODE"
  /\ \E c \in DOMAIN sessions :
       Pair(c).browser # NULL /\ sock[Pair(c).mac] = "open"

C10_AlwaysExpiredCode ==
  [][\A c \in expiredCodes : JoinStep(c) => last'.result = "EXPIRED_CODE"]_vars

\* C10 amended: a join with an expired unpaired code returns EXPIRED_CODE
\* and removes the pair while the pair is in the registry; once the pair has
\* been removed, a join with the code returns INVALID_CODE.
C10_ExpiredThenInvalid ==
  [][\A c \in expiredCodes :
       JoinStep(c)
         => /\ c \in DOMAIN sessions
                 => (last'.result = "EXPIRED_CODE" /\ c \notin DOMAIN sessions')
            /\ c \notin DOMAIN sessions => last'.result = "INVALID_CODE"
            /\ JoinResult(Registry', c, now') = "INVALID_CODE"]_vars

C10_Witness ==
  /\ last.op = "join"
  /\ last.result = "INVALID_CODE"
  /\ last.code \in expiredCodes
  /\ sock[last.sock] = "closed"

\* The object id is a key of one of the live codes.
Live(id) == \E c \in DOMAIN sessions : sessions[c] = id

\* C11: under a fair sweep a pair without browser whose expiry has passed is
\* eventually out of the registry: until it is removed it stays a pair the
\* sweep has to remove, and whenever there are such pairs there comes a
\* state with none.  A join with a code that expired and is no longer a key
\* of sessions returns INVALID_CODE.
C11_ExpiredEventuallySwept ==
  /\ (SweepSet # {}) ~> (SweepSet = {})
  /\ [][\A c \in SweepSet :
          \/ c \notin DOMAIN sessions'
          \/ sessions'[c] # sessions[c]
          \/ (PairNext(c).browser = NULL /\ IsExpired(now', PairNext(c).expiresAt))]_vars
  /\ [][\A c \in expiredCodes :
          (JoinStep(c) /\ c \notin DOMAIN sessions)
            => (last'.result = "INVALID_CODE" /\ sessions' = sessions)]_vars

\* No browser ever connected, the time to live has passed, and a sweep has
\* just removed every expired pair.
C11_Witness ==
  /\ last.op = "cleanup"
  /\ last.count >= 1
  /\ now > SESSION_CODE_EXPIRY_MS
  /\ expiredCodes # {}
  /\ DOMAIN sessions = {}
  /\ \A b \in BrowserSockets : sock[b] = "new"

\* No browser is joined to the object in the registry's browser index.
NoJoinedBrowser(id) ==
  \A b \in BrowserSockets :
    (sock[b] = "joined" /\ b \in DOMAIN browserToSession) => browserToSession[b] # id

\* C12: a rejoin with the session id of a pair whose browser disconnected
\* less than SESSION_CODE_EXPIRY_MS ago and whose agent is still connected
\* succeeds: the socket becomes the pair's browser, the pair keeps its
\* session id and its expiry is disabled.
C12_RejoinAfterDrop ==
  [][\A id \in DOMAIN droppedAt :
       (/\ last'.op = "rejoin"
        /\ last'.sid = id
        /\ droppedAt[id] # Infinity
        /\ now < droppedAt[id] + SESSION_CODE_EXPIRY_MS
        /\ sock[objects[id].mac] = "open"
        /\ NoJoinedBrowser(id))
         => /\ last'.result = "OK"
            /\ Live(id)'
            /\ objects'[id].browser = last'.sock
            /\ objects'[id].sessionId = id
            /\ objects'[id].code = objects[id].code
            /\ objects'[id].expiresAt = Infinity
            /\ browserToSession'[last'.sock] = id]_vars

\* A rejoin succeeded after the browser dropped, later than the expiry the
\* pair had at creation.
C12_Witness ==
  /\ last.op = "rejoin"
  /\ last.result = "OK"
  /\ last.sid \in DOMAIN objects
  /\ joins[last.sid] >= 1
  /\ now > objects[last.sid].createdAt + SESSION_CODE_EXPIRY_MS
  /\ objects[last.sid].browser = last.sock

\* C13 as stated: a rejoin with the session id of a pair whose agent has
\* just disconnected is answered MAC_DISCONNECTED.
C13_RejoinAfterAgentLeft ==
  [][(last.op = "remove" /\ last'.op = "rejoin" /\ last'.sid = last.sid)
       => last'.result = "MAC_DISCONNECTED"]_vars

C15_CodesDistinct ==
  /\ [](\A c \in DOMAIN sessions : Pair(c).code = c)
  /\ [](\A m1, m2 \in DOMAIN macToSession :
          m1 # m2 => objects[macToSession[m1]].code # objects[macToSession[m2]].code)
  /\ [][last'.op = "create"
         => /\ last'.code \notin DOMAIN sessions
            /\ DOMAIN sessions' = DOMAIN sessions \cup {last'.code}
            /\ \A c \in DOMAIN sessions : sessions'[c] = sessions[c]]_vars

\* An agent got the one code left while another pair was live.
C15_Witness ==
  /\ last.op = "create"
  /\ Cardinality(DOMAIN sessions) = 2
  /\ DOMAIN sessions = generateSessionCode
  /\ \A m \in MacSockets : sock[m] = "open"

\* C16 as stated: every call of createSession ends, also when every code
\* the generator can draw is a key of sessions.
C16_CreateTerminates == (creating # NULL) ~> (creating = NULL)

\* C17: a pair keeps its session id and its code from creation to removal,
\* whatever joins, disconnects and rejoins happen, and no two live pairs
\* have the same session id.
C17_IdentityFixed ==
  /\ [](\A c1, c2 \in DOMAIN sessions :
          c1 # c2 => Pair(c1).sessionId # Pair(c2).sessionId)
  /\ [](\A id \in DOMAIN objects : objects[id].sessionId = id)
  /\ [][\A c \in DOMAIN sessions \cap DOMAIN sessions' :
          /\ sessions'[c] = sessions[c]
          /\ PairNext(c).sessionId = Pair(c).sessionId
          /\ PairNext(c).code = Pair(c).code
          /\ PairNext(c).createdAt = Pair(c).createdAt]_vars

\* Two pairs are live and one of them has just lost a browser that had
\* joined it.
C17_Witness ==
  /\ last.op = "disconnect"
  /\ last.result = "OK"
  /\ Cardinality(DOMAIN sessions) = 2
  /\ \E c \in DOMAIN sessions : joins[sessions[c]] >= 1 /\ Pair(c).browser = NULL

\* C18: the first frame the relay sends to an agent is registered with the
\* code of a pair that is stored in the registry for that agent when the
\* frame is sent and was not there before; every agent that has connected
\* has been sent it, and every other frame comes after it.
C18_RegisteredFirst ==
  /\ [](\A m \in MacSockets :
          /\ sock[m] # "new" => macOut[m] # <<>>
          /\ \A i \in 1..Len(macOut[m]) :
               (macOut[m][i][1] = "registered") <=> (i = 1))
  /\ [][\A m \in MacSockets :
          (macOut[m] = <<>> /\ macOut'[m] # <<>>)
            => \E c \in DOMAIN sessions' :
                 /\ macOut'[m] = <<Registered(c)>>
                 /\ c \notin DOMAIN sessions
                 /\ MapHas(macToSession', m)
                 /\ macToSession'[m] = sessions'[c]
                 /\ PairNext(c).mac = m
                 /\ PairNext(c).code = c]_vars

\* An agent was sent registered, then browser_connected, then a forwarded
\* frame of its browser.
C18_Witness ==
  \E m \in MacSockets :
    /\ Len(macOut[m]) = 3
    /\ macOut[m][1][1] = "registered"
    /\ macOut[m][2] = <<"browser_connected">>
    /\ macOut[m][3][1] = "terminal_input"

\* C19: a frame other than join and rejoin from a browser connection that
\* has not joined is answered with error INVALID_MESSAGE and the connection
\* is closed; nothing is sent to any agent and the registry is unchanged.
\* A frame is forwarded only for a joined browser.
C19_AwaitingRejects ==
  /\ [][\A b \in BrowserSockets :
          (last'.op = "payload" /\ last'.sock = b)
            => /\ sock[b] = "awaiting"
               /\ browserOut'[b] = Append(browserOut[b], Error("INVALID_MESSAGE"))
               /\ sock'[b] = "closed"
               /\ macOut' = macOut
               /\ <<objects, sessions, macToSession, browserToSession>>'
                    = <<objects, sessions, macToSession, browserToSession>>]_vars
  /\ [][\A m \in MacSockets :
          (/\ Len(macOut'[m]) = Len(macOut[m]) + 1
           /\ macOut'[m][Len(macOut'[m])][1] = "terminal_input")
            => /\ sock[macOut'[m][Len(macOut'[m])][2]] = "joined"
               /\ PeerOfBrowser(macOut'[m][Len(macOut'[m])][2]) = m]_vars

\* A browser that had not joined sent a payload frame while an agent was
\* connected: it got the error and was closed, the agent got nothing.
C19_Witness ==
  /\ last.op = "payload"
  /\ sock[last.sock] = "closed"
  /\ browserOut[last.sock] = <<Error("INVALID_MESSAGE")>>
  /\ \E m \in MacSockets : sock[m] = "open" /\ Len(macOut[m]) = 1

\* C20: every payload message the client has handed to its socket was sent
\* in state connected on an open socket, and a sendMessage in any other
\* state sends nothing.
C20_PayloadOnlyWhenConnected ==
  /\ [](\A f \in sent :
          f.type \in PayloadTypes
            => (f.state = "connected" /\ f.readyState = "OPEN"))
  /\ [][(stateRef # "connected" /\ stateRef' = stateRef /\ rws' = rws)
          => sent' = sent]_vars

\* A payload message was sent, and the client has since lost its socket
\* and is reconnecting.
C20_Witness ==
  /\ \E f \in sent : f.type \in PayloadTypes
  /\ stateRef = "reconnecting"
  /\ wsRef # NULL
  /\ rws[wsRef].readyState = "CLOSED"

\* C30: the reverse indexes are sound: the session macToSession gives for
\* an agent socket is stored in sessions under its own code and has that
\* socket as mac; the session browserToSession gives for a browser socket is
\* stored in sessions under its own code and has that socket as browser; so
\* no index entry refers to a removed session.
C30_IndexSound ==
  /\ \A m \in DOMAIN macToSession :
       /\ macToSession[m] \in DOMAIN objects
       /\ objects[macToSession[m]].mac = m
       /\ MapHas(sessions, objects[macToSession[m]].code)
       /\ sessions[objects[macToSession[m]].code] = macToSession[m]
  /\ \A b \in DOMAIN browserToSession :
       /\ browserToSession[b] \in DOMAIN objects
       /\ objects[browserToSession[b]].browser = b
       /\ MapHas(sessions, objects[browserToSession[b]].code)
       /\ sessions[objects[browserToSession[b]].code] = browserToSession[b]

\* A pair with a joined browser was removed by its agent's disconnect while
\* another pair with a joined browser stays indexed.
C30_Witness ==
  /\ last.op = "remove"
  /\ Cardinality(DOMAIN browserToSession) = 1
  /\ Cardinality(DOMAIN macToSession) = 1
  /\ \E b \in BrowserSockets : sock[b] = "joined" /\ b \notin DOMAIN browserToSession

\* C24: an error frame, in whatever state it arrives, leaves the client in
\* state 'disconnected' with sessionId null, its socket closed for good and
\* wsRef null; from then on nothing but connect() changes the state, no
\* socket reconnects, and the close event that follows the error leaves the
\* state 'disconnected'.
C24_ErrorFrameDisconnects ==
  /\ [][ev'.op = "errorFrame" =>
          /\ stateRef' = "disconnected"
          /\ ctxSessionId' = NULL
          /\ wsRef' = NULL
          /\ ev'.w = wsRef
          /\ rws'[ev'.w].readyState # "OPEN"
          /\ \A w \in DOMAIN rws' : ~rws'[w].shouldReconnect]_vars
  /\ [][(mounted /\ stateRef = "disconnected" /\ wsRef = NULL
            /\ ev'.op # "connect") =>
          /\ stateRef' = "disconnected"
          /\ wsRef' = NULL
          /\ \A w \in DOMAIN rws' : rws'[w].readyState \notin {"CONNECTING", "OPEN"}]_vars

\* The close event of the socket that got the error frame has fired.
C24_Witness ==
  /\ ev.op = "close"
  /\ ev.prev = "errorFrame"
  /\ stateRef = "disconnected"
  /\ rws[ev.w].readyState = "CLOSED"

\* C26 as stated: a close event in state 'rejoining' sets the state to
\* 'disconnected' and clears the stored session id, and the client does not
\* reach 'connected' afterwards unless connect() is called.
C26_RejoinCloseStaysDisconnected ==
  /\ [][(ev'.op = "close" /\ ev'.code = "rejoining") =>
          (stateRef' = "disconnected" /\ storedSessionId' = NULL)]_vars
  /\ [](rejoinClosed => stateRef # "connected")

C27_BinaryExactlyOnce ==
  \A sessionId \in TabSessions :
    written[sessionId] \o PendingOf(sessionId) = arrived[sessionId]

\* C28 as stated: registerTerminal(S, t) writes to t the buffered chunks of
\* session S in arrival order, removes them and leaves the other chunks in
\* the buffer; writeData writes no chunk of a session other than the active
\* one and, while no active session is set, buffers the chunk and writes
\* nothing.
C28_TextRouting ==
  /\ [][tlast'.op = "registerTerminal" =>
          /\ textWritten' =
               textWritten \o
               [i \in 1..Len(Matching(textPendingRef, tlast'.sessionId)) |->
                  Write(TerminalOf(tlast'.sessionId),
                        Matching(textPendingRef, tlast'.sessionId)[i])]
          /\ textPendingRef' = NotMatching(textPendingRef, tlast'.sessionId)]_vars
  /\ [][tlast'.op = "writeData" =>
          /\ (activeSessionIdRef # NoSession
                /\ tlast'.sessionId # activeSessionIdRef) =>
               textWritten' = textWritten
          /\ activeSessionIdRef = NoSession =>
               /\ textWritten' = textWritten
               /\ textPendingRef' =
                    Append(textPendingRef,
                           Chunk(tlast'.sessionId, tlast'.data))]_vars

\* a is a prefix of b.
IsPrefix(a, b) == Len(a) <= Len(b) /\ a = SubSeq(b, 1, Len(a))

\* The payloads of the forwarded frames of the sender from among frames.
PayloadsFrom(frames, from) ==
  LET fwd == SelectSeq(frames, LAMBDA f : Len(f) = 3 /\ f[2] = from)
  IN [i \in 1..Len(fwd) |-> fwd[i][3]]

\* The payloads the sender from sent while its peer was to.
PayloadsTo(from, to) ==
  LET snt == SelectSeq(sentBy[from], LAMBDA e : e.to = to)
  IN [i \in 1..Len(snt) |-> snt[i].payload]

\* C21: within one direction of one pair the frames the relay has written
\* to the receiver are, in order, the first of the frames in the receiver's
\* outbound queue, and the payloads queued for the receiver from one sender
\* are, in order and each once, the first of the payloads that sender sent
\* to it: all of them while the receiver's connection is open and has not
\* overflowed.
C21_ForwardInOrder ==
  \A s \in Sockets :
    /\ IsPrefix(received[s], OutOf(s))
    /\ \A from \in Sockets :
         /\ IsPrefix(PayloadsFrom(OutOf(s), from), PayloadsTo(from, s))
         /\ Takes(IF s \in MacSockets THEN macOut ELSE browserOut, s)
              => PayloadsFrom(OutOf(s), from) = PayloadsTo(from, s)

\* An agent has received the two payloads of a browser, and a browser the
\* two payloads of an agent.
C21_Witness ==
  /\ \E m \in MacSockets : \E b \in BrowserSockets :
       PayloadsFrom(received[m], b) = <<1, 2>>
  /\ \E m \in MacSockets : \E b \in BrowserSockets :
       PayloadsFrom(received[b], m) = <<1, 2>>

\* The queue variable of the connection s.
QueueOf(s) == IF s \in MacSockets THEN macOut ELSE browserOut

\* The step forwards a payload frame of the sender from to the receiver s.
ForwardStep(from, s) ==
  /\ Len(sentBy'[from]) = Len(sentBy[from]) + 1
  /\ sentBy'[from][Len(sentBy'[from])].to = s

\* C22: no outbound queue holds more frames than its bound; a frame
\* forwarded to a connection whose queue is full closes that connection and
\* only that one: the sender, every other connection and every pair stay
\* as they are; a connection that stays open loses no frame of its queue,
\* and a frame forwarded to it is put at the end of its queue; a connection
\* being closed for overflow is sent and written nothing more.
C22_OverflowClosesSlowPeer ==
  /\ [](\A s \in Sockets : Len(Pending(QueueOf(s), s)) <= QueueBound)
  /\ [][\A from, s \in Sockets :
          (ForwardStep(from, s) /\ Takes(QueueOf(s), s)
             /\ Len(Pending(QueueOf(s), s)) = QueueBound) =>
            /\ doomed' = doomed \cup {s}
            /\ sock' = sock
            /\ sessions' = sessions /\ objects' = objects
            /\ macToSession' = macToSession
            /\ browserToSession' = browserToSession
            /\ macOut' = macOut /\ browserOut' = browserOut]_vars
  /\ [][\A from, s \in Sockets :
          (ForwardStep(from, s) /\ Takes(QueueOf(s), s)
             /\ Len(Pending(QueueOf(s), s)) < QueueBound) =>
            /\ OutOf(s)' = Append(OutOf(s), OutOf(s)'[Len(OutOf(s)')])
            /\ OutOf(s)'[Len(OutOf(s)')][2] = from
            /\ doomed' = doomed]_vars
  /\ [][\A s \in Sockets :
          /\ IsPrefix(OutOf(s), OutOf(s)')
          /\ IsPrefix(received[s], received'[s])
          /\ s \in doomed =>
               (OutOf(s)' = OutOf(s) /\ received'[s] = received[s])]_vars

\* An agent that did not take the frames of its queue is being closed for
\* overflow after a frame of its browser, which is still joined.
C22_Witness ==
  \E m \in MacSockets : \E b \in BrowserSockets :
    /\ m \in doomed
    /\ last.op = "forward"
    /\ last.sock = b
    /\ sock[b] = "joined"
    /\ sock[m] = "open"
    /\ PeerOfBrowser(b) = m
    /\ Len(Pending(macOut, m)) = QueueBound

\* The step is the relay's handling of the close of the joined browser b
\* whose pair has the agent m.
BrowserLeaves(b, m) ==
  /\ last'.op = "disconnect"
  /\ last'.sock = b
  /\ PeerOfBrowser(b) = m

\* The step is the relay's handling of the close of the agent m whose pair
\* has the browser b.
AgentLeaves(m, b) ==
  /\ last'.op = "remove"
  /\ last'.sock = m
  /\ PeerOfMac(m) = b

\* The agent m stays connected with its pair, which has no browser now.
PairSurvives(m) ==
  /\ sock'[m] = sock[m]
  /\ macToSession' = macToSession
  /\ sessions' = sessions
  /\ objects'[macToSession[m]].browser = NULL
  /\ objects'[macToSession[m]].mac = m

\* The pair of the agent m is destroyed.
PairDestroyed(m, b) ==
  /\ m \notin DOMAIN macToSession'
  /\ b \notin DOMAIN browserToSession'
  /\ \A c \in DOMAIN sessions' : sessions'[c] # macToSession[m]

\* The browser b is sent session_disconnected, or the relay closes it.
BrowserSignalled(b) ==
  \/ browserOut'[b] = Append(browserOut[b], <<"session_disconnected">>)
  \/ b \in doomed'
  \/ ~Takes(browserOut, b)

Reopened(w, code) ==
  /\ rws[w].kind = "join"
  /\ rws[w].retries >= 1
  /\ ctxSessionId # NULL
  /\ MapHas(sessions, code)
  /\ objects[sessions[code]].sessionId = ctxSessionId
  /\ sock[objects[sessions[code]].mac] = "open"
  /\ now < SESSION_CODE_EXPIRY_MS

\* C25: a client in 'connected' whose socket closes moves to 'reconnecting';
\* the reopened socket sends join with the code of the client's session;
\* and while the agent is connected and less than 5 minutes have passed, the
\* relay answers that join with joined, whether or not it has handled the
\* close of the client's old connection, so that the client returns to
\* 'connected'.
C25_ReconnectRejoins ==
  /\ [][\A w \in DOMAIN rws :
          (ev'.op = "close" /\ ev'.w = w /\ ev # ev'
             /\ stateRef = "connected" /\ rws[w].shouldReconnect)
          => stateRef' = "reconnecting"]_vars
  /\ [][\A w \in DOMAIN rws : \A code \in DOMAIN sessions :
          (ev'.op = "open" /\ ev'.w = w /\ ev # ev' /\ Reopened(w, code))
          => /\ w \in DOMAIN link'
             /\ link'[w] \in DOMAIN toRelay'
             /\ toRelay'[link'[w]] = <<"join", code>>]_vars
  /\ [][\A w \in DOMAIN link : \A code \in DOMAIN sessions :
          (/\ last'.op = "join"
           /\ last'.sock = link[w]
           /\ link[w] \in DOMAIN toRelay
           /\ toRelay[link[w]] = <<"join", code>>
           /\ rws[w].readyState = "OPEN"
           /\ stateRef = "authenticating"
           /\ Reopened(w, code))
          => /\ last'.result = "OK"
             /\ toClient'[link[w]] = Joined(ctxSessionId)]_vars

\* The pairs of the registry: the Session objects under a code.
Pairs == {sessions[c] : c \in DOMAIN sessions}

\* C31: in every state of the registry, whatever the sequence of its calls
\* and also when a socket is passed to createSession or joinSession more
\* than once, every pair with a browser is the pair findSessionByBrowser
\* gives for that browser, every pair is the pair findSessionByMac gives for
\* its agent, and no socket is the browser or the agent of two pairs.
C31_IndexComplete ==
  /\ \A id \in Pairs :
        objects[id].browser # NULL =>
          findSessionByBrowser(Registry, objects[id].browser) = id
  /\ \A id \in Pairs : findSessionByMac(Registry, objects[id].mac) = id
  /\ \A id1, id2 \in Pairs :
        (id1 # id2) =>
          /\ objects[id1].mac # objects[id2].mac
          /\ (objects[id1].browser = NULL
                \/ objects[id1].browser # objects[id2].browser)

\* C32: every agent connection that is registered and has not disconnected
\* has its pair: findSessionByMac gives a Session for it in every state.
C32_AgentKeepsPair ==
  \A m \in MacSockets :
    sock[m] = "open" => findSessionByMac(Registry, m) # NULL

\* The pair of the agent m has passed its expiry with no browser joined.
ExpiredUnpaired(m) ==
  /\ objects[macToSession[m]].browser = NULL
  /\ objects[macToSession[m]].expiresAt # Infinity
  /\ now > objects[macToSession[m]].expiresAt

\* C32, amended: createSession gives the agent connection its pair, and the
\* pair of a connected agent goes away only in the step of the agent's
\* disconnect, or, when it has expired with no browser joined, in a run of
\* cleanupExpired or in a join or rejoin attempt on its code that gets
\* EXPIRED_CODE.
C32_AgentKeepsPairUntilExpiry ==
  /\ [][\A m \in MacSockets :
          (last'.op = "create" /\ last'.sock = m)
          => findSessionByMac(Registry', m) # NULL]_vars
  /\ [][\A m \in MacSockets :
          (findSessionByMac(Registry, m) # NULL
             /\ findSessionByMac(Registry', m) = NULL)
          => \/ last'.op = "remove" /\ last'.sock = m /\ sock'[m] = "closed"
             \/ /\ ExpiredUnpaired(m)
                /\ \/ last'.op = "cleanup"
                   \/ /\ last'.op \in {"join", "rejoin"}
                      /\ last'.code = objects[macToSession[m]].code
                      /\ last'.result = "EXPIRED_CODE"]_vars

\* A run of cleanupExpired has removed the expired pair of an agent that is
\* still connected: the agent has no pair.
C32_Witness ==
  /\ last.op = "cleanup"
  /\ last.count > 0
  /\ \E m \in MacSockets :
       sock[m] = "open" /\ findSessionByMac(Registry, m) = NULL

\* The step is an event (close, joined frame or error frame) of the socket
\* w, which connect(), attemptRejoin(), disconnect() or the error case has
\* closed and which is not the client's current socket.
SupersededEvent(w) ==
  /\ ev' # ev
  /\ ev'.op \in {"close", "joined", "errorFrame"}
  /\ ev'.w = w
  /\ w # wsRef
  /\ ~rws[w].shouldReconnect

\* C33: an event of a superseded socket changes neither the state nor the
\* sessionId of the client nor its current socket; in particular a late
\* close of the old socket does not move the client from 'connecting' or
\* 'connected' on the new socket to 'reconnecting'.
C33_SupersededSocketIgnored ==
  [][\A w \in DOMAIN rws :
       SupersededEvent(w) =>
         /\ stateRef' = stateRef
         /\ ctxSessionId' = ctxSessionId
         /\ wsRef' = wsRef
         /\ wsRef # NULL => rws'[wsRef] = rws[wsRef]]_vars

SocketEventPending ==
  \E w \in DOMAIN rws :
    \/ rws[w].readyState # "CLOSED"
    \/ rws[w].shouldReconnect /\ rws[w].retries < MaxReconnects

\* C35: the client does not stay in 'reconnecting' forever: whenever its
\* state is 'reconnecting', a socket event that can take it to 'connected'
\* or 'disconnected' is still to come, also when the relay stays
\* unreachable and the retries of the reconnecting socket are used up.
C35_ReconnectingEnds ==
  stateRef = "reconnecting" => SocketEventPending

\* C36: whenever the connection state is 'disconnected', nothing of the
\* previous session is left in the UI contexts: the tab list is empty,
\* activeTabId and the active terminal session are null, and no terminal
\* data is buffered.
C36_DisconnectedIsClean ==
  stateRef = "disconnected" =>
    /\ tabs = <<>>
    /\ activeTabId = NoSession
    /\ activeSessionIdRef = NoSession
    /\ textPendingRef = <<>>

\* The step before was an inbound tab message or a switchTab.
AfterTabStep ==
  tlast.op \in {"tab_list", "tab_switch", "tab_created", "tab_closed",
                "switchTab"}

\* C37: after every inbound tab message and every switchTab, activeTabId is
\* null or the sessionId of a tab of the list, it is the active session of
\* the TerminalProvider, and no other tab is marked isActive; after
\* tab_closed for a tab, that tab is not in the list.
C37_TabSelectionConsistent ==
  /\ AfterTabStep =>
        /\ \/ activeTabId = NoSession
           \/ \E i \in DOMAIN tabs : tabs[i].sessionId = activeTabId
        /\ activeTabId = activeSessionIdRef
        /\ \A i \in DOMAIN tabs :
              tabs[i].isActive => tabs[i].sessionId = activeTabId
  /\ tlast.op = "tab_closed" =>
        \A i \in DOMAIN tabs :
          /\ tabs[i].sessionId # tlast.sessionId
          /\ tabs[i].tabId # tlast.sessionId

\* C38: the terminal registry holds only live terminals: no key of the
\* terminals Map maps to an xterm instance that has been disposed, also
\* after the component registered its instance under a second session id
\* on a tab switch (so findTerminal never hands writeData a disposed
\* instance).
C38_RegistryHoldsLiveTerminals ==
  \A k \in DOMAIN textTerminals : textTerminals[k] \notin disposed

=============================================================================
